---------------------------- MODULE Spec2Model ----------------------------
(***************************************************************************)
(* A model of the agent orchestration core of ariste:                      *)
(*   - the streaming decoder Ollama::execute_impl (src/llm/ollama.rs),      *)
(*   - the top-level tool-calling loop Agent::invoke and the subagent loop  *)
(*     Agent::run_subagent_loop with the dispatcher Agent::execute_tool     *)
(*     (src/agent/agent.rs).                                                *)
(*                                                                         *)
(* Conventions.  An Option<T> of the source is a sequence of length 0      *)
(* (None) or 1 (Some(x)).  A String is a sequence of characters.           *)
(***************************************************************************)
EXTENDS Integers, Sequences, FiniteSets, TLC

None == <<>>
Some(x) == <<x>>
IsSome(o) == Len(o) = 1
Unwrap(o) == o[1]

NL == "\n"

(***************************************************************************)
(* Bounds of the model.                                                    *)
(***************************************************************************)
\* Longest response body, in items yielded by the byte stream.
MaxPackets == 2
\* Most frames the spinner task draws during one call.
MaxSpins == 1

(***************************************************************************)
(* Tool-call entries as the model sends them: raw JSON values.  "id" is an *)
(* Option (the key may be absent), "function" may be absent, and the       *)
(* arguments are those the dispatcher reads.                               *)
(***************************************************************************)
NoArgs == [subagent_type |-> None, description |-> None, prompt |-> None,
           include_tools |-> None]

Call(id, hasFunction, name, args) ==
    [id |-> id, function |-> hasFunction, name |-> name, arguments |-> args]

K1 == Call(Some("c1"), TRUE, "bash", NoArgs)
K2 == Call(Some("c2"), TRUE, "read", NoArgs)
K3 == Call(None, TRUE, "bash", NoArgs)

(***************************************************************************)
(* The JSON objects of a chat response body (spec section 6): each has an  *)
(* optional message.content, message.thinking, message.tool_calls and a    *)
(* done flag.  An absent tool_calls key is the empty list, an absent done  *)
(* flag is FALSE: the decoder treats them alike.                           *)
(***************************************************************************)
Obj(done, thinking, content, calls) ==
    [done |-> done, thinking |-> thinking, content |-> content, tool_calls |-> calls]

Objects ==
    << Obj(FALSE, None, Some(<<"a">>), <<>>),
       Obj(FALSE, None, Some(<<"b">>), <<>>),
       Obj(FALSE, Some(<<"t">>), None, <<>>),
       Obj(FALSE, Some(<<"u", NL, "v">>), None, <<>>),
       Obj(FALSE, None, None, <<K1>>),
       Obj(FALSE, None, Some(<<"b">>), <<K2, K3>>),
       Obj(TRUE, None, None, <<>>),
       Obj(TRUE, None, Some(<<"a">>), <<K2>>),
       Obj(FALSE, Some(<<"t">>), Some(<<"a">>), <<>>) >>

ObjIds == 1..Len(Objects)

(***************************************************************************)
(* Bytes on the wire.  An object i is serialised as an opening part        *)
(* carrying its text and a closing brace; objects are separated by         *)
(* newlines (whitespace for the JSON parser).  0xFF is a byte that is      *)
(* never valid UTF-8.                                                      *)
(***************************************************************************)
BOpen(i) == [b |-> "open", obj |-> i]
BClose == [b |-> "close", obj |-> 0]
BWs == [b |-> "ws", obj |-> 0]
BXff == [b |-> "xff", obj |-> 0]

Serialize(i) == <<BOpen(i), BClose, BWs>>

\* One item of resp.bytes_stream(): Ok(bytes) or Err(transport error).
OkBytes(bs) == [kind |-> "bytes", bytes |-> bs]
ErrItem == [kind |-> "err", bytes |-> <<>>]

\* The items a network delivery is made of: whole objects, an object cut in
\* two packets, an object with a newline before its closing brace, two
\* objects in one packet, a packet with an invalid UTF-8
\* byte, and a transport error.
ItemPool ==
    {OkBytes(Serialize(i)) : i \in ObjIds}
    \cup {OkBytes(<<BOpen(1)>>), OkBytes(<<BClose, BWs>>),
          OkBytes(<<BOpen(1), BWs, BClose>>),
          OkBytes(Serialize(1) \o Serialize(2)),
          OkBytes(<<BOpen(2), BXff, BClose, BWs>>),
          ErrItem}

RECURSIVE SeqsUpTo(_, _)
SeqsUpTo(S, n) ==
    IF n = 0 THEN {<<>>}
    ELSE LET shorter == SeqsUpTo(S, n - 1)
         IN shorter \cup {Append(s, x) : s \in {t \in shorter : Len(t) = n - 1}, x \in S}

VARIABLES
    wire,               \* the items the byte stream will yield, in order
    verbose,            \* Ollama.verbose
    dpc,                \* position in execute_impl: "send", "stream", "sleep", "returned"
    pos,                \* number of items taken from the stream so far
    status,             \* the idle(0) / reasoning(1) / responding(2) cursor
    response,           \* accumulated content
    thinking_buffer,    \* reasoning text not yet emitted
    tool_calls_buffer,  \* accumulated tool-call entries
    ui,                 \* the callbacks issued so far, in order
    dresult,            \* the value execute_impl returned
    spinner_running,    \* the AtomicBool shared with the spinner task
    spinner             \* position of the spinner task: "none", "load", "call", "exited"

dvars == <<wire, verbose, dpc, pos, status, response, thinking_buffer,
           tool_calls_buffer, ui, dresult, spinner_running, spinner>>

VARIABLES
    messages,           \* Agent.messages of the top-level agent
    pc,                 \* position in Agent::invoke: "idle", "loop", "chat", "dispatch", "sub"
    iteration,          \* invoke's local iteration
    tool_calls,         \* invoke's local tool_calls (of the latest response)
    idx,                \* position of the for loop over tool_calls
    outcome,            \* what the latest Agent::invoke returned
    chat_calls,         \* execute_with_messages calls made in the current turn
    log,                \* the responses they returned, in order
    before,             \* Agent.messages as they were when the turn began
    sub                 \* the subagent built by execute_tool, while it exists

avars == <<messages, pc, iteration, tool_calls, idx, outcome, chat_calls, log, before, sub>>

VARIABLES
    tasks,              \* the Vec<SubAgentTask> given to spawn_multiple_tasks
    futures,            \* the futures it builds, one per task, in task order
    completed,          \* the indices of the futures that are done, in completion order
    fpc,                \* position in spawn_multiple_tasks: "idle", "joining", "returned"
    fresult,            \* the value spawn_multiple_tasks returned
    spawn,              \* a direct call of spawn_task_with_options, while it runs
    execution,          \* a SubAgentExecution
    clock               \* the monotonic clock Instant::now reads

xvars == <<execution, clock>>

fvars == <<tasks, futures, completed, fpc, fresult, spawn, xvars>>

vars == <<dvars, avars, fvars>>

\* The chat clients: the one load_from_config builds, or
\* Ollama::new().stream(false).think(false) of a subagent without tools.
ConfiguredClient == [url |-> Some("configured"), stream |-> TRUE, think |-> FALSE, tools |-> TRUE]
BareClient == [url |-> None, stream |-> FALSE, think |-> FALSE, tools |-> FALSE]

\* SubAgentStatus
Status(kind, error) == [kind |-> kind, error |-> error]

\* SubAgentExecution::new
NewExecution(id, task) ==
    [id |-> id, task |-> task, status |-> Status("Pending", None),
     start_time |-> None, end_time |-> None, result |-> None]

\* SubAgentTask::new(SubAgentType::Explore, "Test task", "Test prompt")
TestTask ==
    [subagent_type |-> "explore", description |-> <<"Test task">>,
     prompt |-> <<"Test prompt">>, include_context |-> FALSE, include_tools |-> FALSE]

\* self.url.as_deref().unwrap_or("http://localhost:11434/api/chat")
Endpoint(client) ==
    IF IsSome(client.url) THEN Unwrap(client.url) ELSE "http://localhost:11434/api/chat"

\* spawn_task_with_options is not running.
NoSpawn ==
    [pc |-> "idle", args |-> NoArgs, context |-> None, messages |-> <<>>,
     ollama |-> BareClient, result |-> None]

\* No subagent exists.
NoSub ==
    [pc |-> "none", messages |-> <<>>, iteration |-> 0, turn |-> 0, tool_calls |-> <<>>,
     idx |-> 0, max_turns |-> 0, ollama |-> BareClient, result |-> None, args |-> NoArgs]

\* The top-level agent as Agent::load_from_config leaves it, with no turn made.
AgentIdle ==
    /\ messages = <<>>
    /\ pc = "idle"
    /\ iteration = 0
    /\ tool_calls = <<>>
    /\ idx = 0
    /\ outcome = None
    /\ chat_calls = 0
    /\ log = <<>>
    /\ before = <<>>
    /\ sub = NoSub
    /\ tasks = <<>>
    /\ futures = <<>>
    /\ completed = <<>>
    /\ fpc = "idle"
    /\ fresult = None
    /\ spawn = NoSpawn
    /\ execution = NewExecution(1, TestTask)
    /\ clock = 0

(***************************************************************************)
(* std::str::from_utf8 and serde_json::from_str::<Value>.                  *)
(***************************************************************************)
FromUtf8Ok(bs) == \A k \in 1..Len(bs) : bs[k].b # "xff"

RECURSIVE TrimLeft(_)
TrimLeft(bs) ==
    IF bs # <<>> /\ bs[1].b = "ws" THEN TrimLeft(Tail(bs)) ELSE bs

RECURSIVE TrimRight(_)
TrimRight(bs) ==
    IF bs # <<>> /\ bs[Len(bs)].b = "ws" THEN TrimRight(SubSeq(bs, 1, Len(bs) - 1)) ELSE bs

\* One complete JSON value, surrounded by optional whitespace, with optional
\* whitespace before its closing brace; anything else (an incomplete value,
\* trailing characters, no value) is an error.
FromStr(bs) ==
    LET t == TrimRight(TrimLeft(bs))
    IN IF /\ Len(t) >= 2
          /\ t[1].b = "open"
          /\ t[Len(t)].b = "close"
          /\ \A k \in 2..(Len(t) - 1) : t[k].b = "ws"
       THEN Some(Objects[t[1].obj])
       ELSE None

\* The let-chain of the loop body: Ok(bytes), then valid UTF-8, then JSON.
ParseChunk(item) ==
    IF item.kind = "bytes" /\ FromUtf8Ok(item.bytes) THEN FromStr(item.bytes) ELSE None

(***************************************************************************)
(* The decoder's locals as a record, and the loop body as a function of    *)
(* them.                                                                   *)
(***************************************************************************)
Ev(name, text) == [ev |-> name, text |-> text]

DecInit ==
    [status |-> 0, response |-> <<>>, thinking_buffer |-> <<>>,
     tool_calls_buffer |-> <<>>, ui |-> <<>>, stopped |-> FALSE, failed |-> FALSE]

\* Mutant: the entries of a chunk are put in front of the earlier ones.
PushCallsFront(buffer, calls) == calls \o buffer

\* for call in calls { tool_calls_buffer.push(call.clone()) }
PushCalls(buffer, calls) == buffer \o calls

\* Mutant: the done flag is never honoured.
IsDoneNever(o) == FALSE

\* resp.get("done").as_bool() == Some(true)
IsDone(o) == o.done

FindNewline(buf) ==
    IF \E k \in 1..Len(buf) : buf[k] = NL
    THEN CHOOSE k \in 1..Len(buf) : buf[k] = NL /\ \A j \in 1..(k - 1) : buf[j] # NL
    ELSE 0

\* while let Some(newline_pos) = thinking_buffer.find('\n') { ... }
RECURSIVE FlushLines(_)
FlushLines(d) ==
    LET p == FindNewline(d.thinking_buffer)
    IN IF p = 0 THEN d
       ELSE FlushLines([d EXCEPT
                !.ui = Append(@, Ev("thinking_block_content", SubSeq(d.thinking_buffer, 1, p - 1))),
                !.thinking_buffer = SubSeq(d.thinking_buffer, p + 1, Len(d.thinking_buffer))])

\* The branch taken for a message.thinking fragment.
OnThinking(d, fragment, verb) ==
    IF ~verb THEN d
    ELSE LET d1 == IF d.status = 0
                   THEN [d EXCEPT !.ui = @ \o <<Ev("clear_line", <<>>),
                                                Ev("thinking_block_start", <<>>)>>,
                                  !.status = 1]
                   ELSE d
             d2 == [d1 EXCEPT !.thinking_buffer = @ \o fragment]
         IN FlushLines(d2)

\* Mutant: the content is accumulated only by a verbose client.
OnContentVerboseOnly(d, fragment, verb) ==
    IF ~verb THEN d
    ELSE [d EXCEPT !.ui = Append(@, Ev("print", fragment)),
                   !.response = @ \o fragment,
                   !.status = 2]

\* The branch taken for a message.content fragment.
OnContent(d, fragment, verb) ==
    LET d1 == IF ~verb THEN d
              ELSE LET e == IF d.status = 0
                            THEN [d EXCEPT !.ui = @ \o <<Ev("clear_line", <<>>),
                                                         Ev("response_start", <<>>)>>]
                            ELSE IF d.status = 1
                            THEN [d EXCEPT
                                   !.ui = (IF d.thinking_buffer # <<>>
                                           THEN Append(@, Ev("thinking_block_content",
                                                             d.thinking_buffer))
                                           ELSE @)
                                          \o <<Ev("thinking_block_end", <<>>)>>,
                                   !.thinking_buffer = <<>>,
                                   !.status = 2]
                            ELSE d
                   IN [e EXCEPT !.ui = Append(@, Ev("print", fragment))]
    IN [d1 EXCEPT !.response = @ \o fragment]

\* Mutant: an item that fails the let-chain fails the call.
SkipChunkFail(d) == [d EXCEPT !.failed = TRUE]

\* What the loop does with an item that fails the let-chain: nothing.
SkipChunk(d) == d

\* The body of the while loop for one parsed object.
OnObject(d, o, verb) ==
    LET d1 == [d EXCEPT !.tool_calls_buffer = PushCalls(@, o.tool_calls)]
    IN IF IsDone(o) THEN [d1 EXCEPT !.stopped = TRUE]
       ELSE IF IsSome(o.thinking) THEN OnThinking(d1, Unwrap(o.thinking), verb)
       ELSE IF IsSome(o.content) THEN OnContent(d1, Unwrap(o.content), verb)
       ELSE d1

StepItem(d, item, verb) ==
    LET p == ParseChunk(item)
    IN IF IsSome(p) THEN OnObject(d, Unwrap(p), verb) ELSE SkipChunk(d)

\* The code after the loop: the final newline and the returned value.
OllamaResponse(content, calls) ==
    [ok |-> TRUE, error |-> "", content |-> content,
     tool_calls |-> IF calls = <<>> THEN None ELSE Some(calls)]

ErrResponse(e) == [ok |-> FALSE, error |-> e, content |-> <<>>, tool_calls |-> None]

Finish(d, verb) ==
    [d EXCEPT !.ui = IF verb THEN Append(@, Ev("print", <<NL>>)) ELSE @]

Returned(d) ==
    IF d.failed THEN ErrResponse("decode") ELSE OllamaResponse(d.response, d.tool_calls_buffer)

\* execute_impl as a function of the items of the body and the verbose flag.
RECURSIVE RunFrom(_, _, _)
RunFrom(d, items, verb) ==
    IF items = <<>> \/ d.stopped \/ d.failed THEN Finish(d, verb)
    ELSE RunFrom(StepItem(d, Head(items), verb), Tail(items), verb)

Decode(items, verb) == RunFrom(DecInit, items, verb)

Cur == [status |-> status, response |-> response, thinking_buffer |-> thinking_buffer,
        tool_calls_buffer |-> tool_calls_buffer, ui |-> ui,
        stopped |-> FALSE, failed |-> FALSE]

(***************************************************************************)
(* The decoder as a state machine.                                         *)
(***************************************************************************)
\* The loop body reaches sleep(Duration::from_millis(50)).await: a verbose
\* client whose cursor is idle has got a thinking or a content fragment.
Suspends(d, item, verb) ==
    LET p == ParseChunk(item)
    IN /\ IsSome(p)
       /\ ~IsDone(Unwrap(p))
       /\ IsSome(Unwrap(p).thinking) \/ IsSome(Unwrap(p).content)
       /\ verb
       /\ d.status = 0

\* The loop body from the end of the sleep to its continue.
AfterSleep(d, o, verb) ==
    IF IsSome(o.thinking) THEN OnThinking(d, Unwrap(o.thinking), verb)
    ELSE OnContent(d, Unwrap(o.content), verb)

\* The thinking_start callbacks in a callback sequence.
Spins(callbacks) == Len(SelectSeq(callbacks, LAMBDA e : e.ev = "thinking_start"))

DecoderInit ==
    /\ wire \in SeqsUpTo(ItemPool, MaxPackets)
    /\ verbose \in BOOLEAN
    /\ dpc = "send"
    /\ pos = 0
    /\ status = 0
    /\ response = <<>>
    /\ thinking_buffer = <<>>
    /\ tool_calls_buffer = <<>>
    /\ ui = <<>>
    /\ dresult = None
    /\ spinner_running = FALSE
    /\ spinner = "none"
    /\ AgentIdle

\* client.post(url).json(payload).send().await succeeds: the locals are
\* initialised and the spinner task is spawned.
Send ==
    /\ dpc = "send"
    /\ dpc' = "stream"
    /\ spinner_running' = TRUE
    /\ spinner' = "load"
    /\ UNCHANGED <<wire, verbose, pos, status, response, thinking_buffer,
                   tool_calls_buffer, ui, dresult>>
    /\ UNCHANGED <<avars, fvars>>

\* ... or fails: the ? returns the reqwest error.
SendError ==
    /\ dpc = "send"
    /\ dpc' = "returned"
    /\ dresult' = Some(ErrResponse("transport"))
    /\ UNCHANGED <<wire, verbose, pos, status, response, thinking_buffer,
                   tool_calls_buffer, ui, spinner_running, spinner>>
    /\ UNCHANGED <<avars, fvars>>

\* stream.next() yields an item: the loop body up to its next await, that
\* is the whole pass (and the code after the loop when the body breaks), or
\* the pass up to the sleep that follows the stop of the spinner.
NextChunk ==
    /\ dpc = "stream"
    /\ pos < Len(wire)
    /\ pos' = pos + 1
    /\ IF Suspends(Cur, wire[pos + 1], verbose)
       THEN /\ tool_calls_buffer' =
                   PushCalls(tool_calls_buffer, Unwrap(ParseChunk(wire[pos + 1])).tool_calls)
            /\ spinner_running' = FALSE
            /\ dpc' = "sleep"
            /\ UNCHANGED <<status, response, thinking_buffer, ui, dresult>>
       ELSE LET d == StepItem(Cur, wire[pos + 1], verbose)
                e == IF d.stopped \/ d.failed THEN Finish(d, verbose) ELSE d
            IN /\ status' = e.status
               /\ response' = e.response
               /\ thinking_buffer' = e.thinking_buffer
               /\ tool_calls_buffer' = e.tool_calls_buffer
               /\ ui' = e.ui
               /\ spinner_running' = IF d.stopped \/ d.failed THEN FALSE ELSE spinner_running
               /\ dpc' = IF d.stopped \/ d.failed THEN "returned" ELSE "stream"
               /\ dresult' = IF d.stopped \/ d.failed THEN Some(Returned(e)) ELSE dresult
    /\ UNCHANGED <<wire, verbose, spinner>>
    /\ UNCHANGED <<avars, fvars>>

\* The sleep is over: the rest of the pass, from UI::clear_line() on.
Wake ==
    /\ dpc = "sleep"
    /\ LET e == AfterSleep(Cur, Unwrap(ParseChunk(wire[pos])), verbose)
       IN /\ status' = e.status
          /\ response' = e.response
          /\ thinking_buffer' = e.thinking_buffer
          /\ ui' = e.ui
    /\ dpc' = "stream"
    /\ UNCHANGED <<wire, verbose, pos, tool_calls_buffer, dresult, spinner_running, spinner>>
    /\ UNCHANGED <<avars, fvars>>

\* stream.next() yields None: the code after the loop.
StreamEnd ==
    /\ dpc = "stream"
    /\ pos = Len(wire)
    /\ LET e == Finish(Cur, verbose)
       IN /\ ui' = e.ui
          /\ dresult' = Some(Returned(e))
    /\ spinner_running' = FALSE
    /\ dpc' = "returned"
    /\ UNCHANGED <<wire, verbose, pos, status, response, thinking_buffer,
                   tool_calls_buffer, spinner>>
    /\ UNCHANGED <<avars, fvars>>

\* The spinner task, started or back from its sleep of 150 ms, reads the flag.
SpinnerLoad ==
    /\ spinner = "load"
    /\ spinner_running => Spins(ui) < MaxSpins
    /\ spinner' = IF spinner_running THEN "call" ELSE "exited"
    /\ UNCHANGED <<wire, verbose, dpc, pos, status, response, thinking_buffer,
                   tool_calls_buffer, ui, dresult, spinner_running>>
    /\ UNCHANGED <<avars, fvars>>

\* ... and, having read true, draws a frame: ui.thinking_start().
SpinnerCall ==
    /\ spinner = "call"
    /\ ui' = Append(ui, Ev("thinking_start", <<>>))
    /\ spinner' = "load"
    /\ UNCHANGED <<wire, verbose, dpc, pos, status, response, thinking_buffer,
                   tool_calls_buffer, dresult, spinner_running>>
    /\ UNCHANGED <<avars, fvars>>

DecoderNext ==
    Send \/ SendError \/ NextChunk \/ Wake \/ StreamEnd \/ SpinnerLoad \/ SpinnerCall

SpecDecoder == DecoderInit /\ [][DecoderNext]_vars


(***************************************************************************)
(* Vocabulary of the decoder claims.                                       *)
(***************************************************************************)
WellFormed(item) == IsSome(ParseChunk(item))

\* The callbacks of the decoding loop: all but the frames of the spinner.
LoopCallbacks(callbacks) == SelectSeq(callbacks, LAMBDA e : e.ev # "thinking_start")

\* Index of the first chunk of items whose done flag is true, 0 if none.
FirstDone(items) ==
    LET hits == {k \in 1..Len(items) : WellFormed(items[k]) /\ Unwrap(ParseChunk(items[k])).done}
    IN IF hits = {} THEN 0 ELSE CHOOSE k \in hits : \A j \in hits : k <= j

\* The chunks up to and including the terminating chunk.
UpToTerminator(items) ==
    IF FirstDone(items) = 0 THEN items ELSE SubSeq(items, 1, FirstDone(items))

RECURSIVE ContentFragments(_)
ContentFragments(items) ==
    IF items = <<>> THEN <<>>
    ELSE LET p == ParseChunk(Head(items))
         IN (IF IsSome(p) /\ IsSome(Unwrap(p).content) THEN Unwrap(Unwrap(p).content) ELSE <<>>)
            \o ContentFragments(Tail(items))

RECURSIVE ToolEntries(_)
ToolEntries(items) ==
    IF items = <<>> THEN <<>>
    ELSE LET p == ParseChunk(Head(items))
         IN (IF IsSome(p) THEN Unwrap(p).tool_calls ELSE <<>>) \o ToolEntries(Tail(items))

ThinkingChars ==
    UNION {{Unwrap(Objects[i].thinking)[k] : k \in 1..Len(Unwrap(Objects[i].thinking))}
           : i \in {j \in ObjIds : IsSome(Objects[j].thinking)}}

ListOption(calls) == IF calls = <<>> THEN None ELSE Some(calls)

StreamReturned == dpc = "returned" /\ Unwrap(dresult).error # "transport"

\* The bytes of a delivery, and the objects a byte sequence holds when it is
\* a sequence of complete objects separated by whitespace.
RECURSIVE BytesOf(_)
BytesOf(items) ==
    IF items = <<>> THEN <<>> ELSE Head(items).bytes \o BytesOf(Tail(items))

RECURSIVE IsObjectSequence(_)
IsObjectSequence(bs) ==
    LET t == TrimLeft(bs)
        u == TrimLeft(Tail(t))
    IN \/ t = <<>>
       \/ /\ t[1].b = "open"
          /\ u # <<>>
          /\ u[1].b = "close"
          /\ IsObjectSequence(Tail(u))

RECURSIVE ObjectsIn(_)
ObjectsIn(bs) ==
    LET t == TrimLeft(bs)
    IN IF t = <<>> THEN <<>>
       ELSE <<t[1].obj>> \o ObjectsIn(Tail(TrimLeft(Tail(t))))

\* The same object sequence delivered one object per packet.
OnePerPacket(ids) == [k \in 1..Len(ids) |-> OkBytes(Serialize(ids[k]))]

CleanDelivery(items) ==
    /\ \A k \in 1..Len(items) : items[k].kind = "bytes"
    /\ IsObjectSequence(BytesOf(items))

(***************************************************************************)
(* C5 (as claimed): when every chunk is a well-formed JSON object, the     *)
(* returned content is the concatenation, in stream order, of the content  *)
(* fragments of all chunks up to and including the terminating chunk, and  *)
(* it holds no thinking fragment.                                          *)
(***************************************************************************)
C5_ContentIsConcatenation ==
    (StreamReturned /\ \A k \in 1..Len(wire) : WellFormed(wire[k]))
        => /\ Unwrap(dresult).ok
           /\ Unwrap(dresult).content = ContentFragments(UpToTerminator(wire))
           /\ \A k \in 1..Len(Unwrap(dresult).content) :
                  Unwrap(dresult).content[k] \notin ThinkingChars

(***************************************************************************)
(* C6 (as claimed): the decoded tool-call list holds the tool-call entries *)
(* of all well-formed chunks of the response, in stream order, and the     *)
(* tool_calls field is None exactly when there is none.                    *)
(***************************************************************************)
C6_AllToolCallsOfTheStream ==
    StreamReturned => Unwrap(dresult).tool_calls = ListOption(ToolEntries(wire))

(***************************************************************************)
(* C6 (amended): the decoded tool-call list holds, in stream order, the    *)
(* tool-call entries of the well-formed chunks up to and including the     *)
(* first chunk whose done flag is true (all chunks if there is none); the  *)
(* tool_calls field is None exactly when that list is empty, never an      *)
(* empty list.                                                             *)
(***************************************************************************)
C6_ToolCallsUpToTerminator ==
    StreamReturned
        => /\ Unwrap(dresult).ok
           /\ Unwrap(dresult).tool_calls = ListOption(ToolEntries(UpToTerminator(wire)))
           /\ Unwrap(dresult).tool_calls # Some(<<>>)

\* Three entries, spread over two chunks, have been decoded.
C6_Witness ==
    /\ StreamReturned
    /\ Unwrap(dresult).tool_calls = Some(<<K1, K2, K3>>)
    /\ Len(wire) = 2

(***************************************************************************)
(* C7 (as claimed): the decoded response depends only on the sequence of   *)
(* JSON objects in the byte stream, not on the packet boundaries: any      *)
(* delivery of an object sequence decodes like its delivery one object per *)
(* packet.                                                                 *)
(***************************************************************************)
C7_PacketBoundariesDoNotMatter ==
    (StreamReturned /\ CleanDelivery(wire))
        => Unwrap(dresult) = Returned(Decode(OnePerPacket(ObjectsIn(BytesOf(wire))), verbose))

(***************************************************************************)
(* C8: once a chunk whose done flag is true has been decoded, decoding has *)
(* stopped: the call has returned, no later item was taken from the        *)
(* stream, and the response and the callbacks are those of the chunks up   *)
(* to that one.                                                            *)
(***************************************************************************)
C8_DoneStopsDecoding ==
    FirstDone(SubSeq(wire, 1, pos)) > 0
        => /\ dpc = "returned"
           /\ pos = FirstDone(wire)
           /\ Unwrap(dresult) = Returned(Decode(SubSeq(wire, 1, pos), verbose))
           /\ Unwrap(dresult).tool_calls = ListOption(ToolEntries(SubSeq(wire, 1, pos)))
           /\ Len(Unwrap(dresult).content) <= Len(ContentFragments(SubSeq(wire, 1, pos - 1)))
           /\ LoopCallbacks(ui) = Decode(SubSeq(wire, 1, pos), verbose).ui
           /\ \A k \in 1..Len(ui) : ui[k].ev = "thinking_start" => ui[k].text = <<>>

\* A done chunk was decoded while a later chunk carrying content and tool
\* calls was still to come, and the spinner drew a frame during the call.
C8_Witness ==
    /\ dpc = "returned"
    /\ FirstDone(wire) = 1
    /\ Len(wire) = 2
    /\ WellFormed(wire[2]) /\ IsSome(Unwrap(ParseChunk(wire[2])).content)
    /\ Unwrap(ParseChunk(wire[2])).tool_calls # <<>>
    /\ Spins(ui) = 1
    /\ verbose

(***************************************************************************)
(* C9: a chunk that is not valid UTF-8 or not a parseable JSON object is   *)
(* skipped: the call returns Ok and the decoded response is the one of the *)
(* same stream without the malformed chunks.                               *)
(***************************************************************************)
Malformed(item) == item.kind = "bytes" /\ ~WellFormed(item)

RemoveMalformed(items) == SelectSeq(items, LAMBDA it : ~Malformed(it))

C9_MalformedChunksAreSkipped ==
    StreamReturned
        => /\ Unwrap(dresult).ok
           /\ Unwrap(dresult) = Returned(Decode(RemoveMalformed(wire), verbose))

\* A chunk that is not valid UTF-8 was taken, and content was decoded after
\* it.
C9_Witness ==
    /\ StreamReturned
    /\ pos = 2
    /\ Malformed(wire[1]) /\ ~FromUtf8Ok(wire[1].bytes)
    /\ Unwrap(dresult).content = <<"a">>

(***************************************************************************)
(* C10 (as claimed): a transport error while sending the request or while  *)
(* reading the body stream makes the call return an error, never an Ok     *)
(* response.                                                               *)
(***************************************************************************)
TransportErrorSeen ==
    \/ (dpc = "returned" /\ Unwrap(dresult).error = "transport")
    \/ \E k \in 1..pos : wire[k].kind = "err"

C10_TransportErrorIsFatal ==
    (dpc = "returned" /\ TransportErrorSeen) => ~Unwrap(dresult).ok


(***************************************************************************)
(* The agent loops (src/agent/agent.rs).                                   *)
(*                                                                         *)
(* A message content, a prompt and an error text are sequences of strings; *)
(* format!() is the concatenation of its parts.                            *)
(***************************************************************************)
\* Bounds of the agent model.
\* A new turn is begun only while the history has at most this many messages.
MaxHistory == 2
\* The model requests a delegation at most this many times in a run.
MaxDelegations == 1

\* Mutant: the ceiling is one iteration lower.
MaxIterationsShort == 3 + 1

\* Mutant: the ceiling is one iteration higher.
MaxIterationsLong == 5 + 1

\* let max_iterations = 5 (Agent::invoke)
MaxIterations == 5
\* let max_iterations = 5 (Agent::run_subagent_loop)
SubMaxIterations == 5
\* let max_turns = 10 (Agent::execute_tool)
MaxTurns == 10

Ok(v) == [ok |-> TRUE, value |-> v]
Err(e) == [ok |-> FALSE, value |-> e]

Msg(role, content, calls, id) ==
    [role |-> role, content |-> content, tool_calls |-> calls, tool_call_id |-> id]

UserMsg(prompt) == Msg("user", prompt, None, None)

\* The assistant message recording the tool calls of a response.
AssistantCalls(resp) == Msg("assistant", resp.content, resp.tool_calls, None)

\* Mutant: the final message loses the text of the response.
AssistantFinalEmpty(resp) == Msg("assistant", <<>>, None, None)

\* The final assistant message of a turn.
AssistantFinal(resp) == Msg("assistant", resp.content, None, None)

\* Mutant: the id of the call is not read.
ToolCallIdEmpty(call) == ""

\* tool_call.get("id").and_then(|v| v.as_str()).unwrap_or("")
ToolCallId(call) == IF IsSome(call.id) THEN Unwrap(call.id) ELSE ""

\* Mutant: the tool message carries no tool_call_id.
ToolMsgNoId(call, result) == Msg("tool", result, None, None)

\* The tool message answering a call.
ToolMsg(call, result) == Msg("tool", result, None, Some(ToolCallId(call)))

\* The tools Agent::load_from_config registers.
RegisteredTools ==
    {"bash", "read", "write", "glob", "grep", "edit", "web_fetch", "todo_write", "task"}

\* What Tool::execute may return.
ToolOutcomes == {Ok(<<"out">>), Err(<<"boom">>)}

\* Mutant: the name is not looked up.
ExecuteRegularAnyName(name, r) ==
    IF r.ok THEN Ok(r.value) ELSE Err(<<"Tool execution error: ">> \o r.value)

\* The registry path of execute_tool, r being what the tool's execute returns.
ExecuteRegular(name, r) ==
    IF name \in RegisteredTools
    THEN IF r.ok THEN Ok(r.value) ELSE Err(<<"Tool execution error: ">> \o r.value)
    ELSE Err(<<"Tool not found: ", name>>)

(***************************************************************************)
(* The delegation branch of execute_tool.                                  *)
(***************************************************************************)
TaskArgs(type, description, prompt, include_tools) ==
    [subagent_type |-> type, description |-> description, prompt |-> prompt,
     include_tools |-> include_tools]

SubagentTypeStr(args) ==
    IF IsSome(args.subagent_type) THEN Unwrap(args.subagent_type) ELSE "general-purpose"

SubAgentTypes == {"general-purpose", "explore", "plan", "code-review", "test-runner"}

\* The subagent_type enum of the delegation tool's definition.
AdvertisedSubagentTypes ==
    {"general-purpose", "explore", "plan", "claude-code-guide",
     "glm-plan-usage:usage-query-agent"}

\* The error the argument parsing returns, if any, in the order of the code.
TaskArgError(args) ==
    IF SubagentTypeStr(args) \notin SubAgentTypes
    THEN Some(<<"Invalid subagent type: ", SubagentTypeStr(args)>>)
    ELSE IF ~IsSome(args.description) THEN Some(<<"Missing 'description' argument">>)
    ELSE IF ~IsSome(args.prompt) THEN Some(<<"Missing 'prompt' argument">>)
    ELSE None

IncludeTools(args) == IF IsSome(args.include_tools) THEN Unwrap(args.include_tools) ELSE FALSE

\* SubAgentType::system_prompt
SystemPrompt(type) ==
    IF type = "general-purpose" THEN None ELSE Some(<<"system prompt: ", type>>)

\* SubAgentType::uses_tools
UsesTools(type) == type # "plan"

FullPrompt(description, prompt) ==
    <<"Task: ">> \o description \o <<"\n\nDetails:\n">> \o prompt

\* Mutant: the subagent starts from the parent's conversation.
InitialMessagesWithHistory(args) ==
    messages \o <<UserMsg(FullPrompt(Unwrap(args.description), Unwrap(args.prompt)))>>

\* The conversation execute_tool seeds the subagent with.
InitialMessages(args) ==
    (IF IsSome(SystemPrompt(SubagentTypeStr(args)))
     THEN <<Msg("system", Unwrap(SystemPrompt(SubagentTypeStr(args))), None, None)>>
     ELSE <<>>)
    \o <<UserMsg(FullPrompt(Unwrap(args.description), Unwrap(args.prompt)))>>

\* Mutant: the role's capability is not consulted.
SubagentClientByFlag(args) == IF ~IncludeTools(args) THEN BareClient ELSE ConfiguredClient

\* The subagent's chat client: without tools unless they are asked for and
\* the role may use them.
SubagentClient(args) ==
    IF ~IncludeTools(args) \/ ~UsesTools(SubagentTypeStr(args))
    THEN BareClient ELSE ConfiguredClient

\* The subagent at the entry of run_subagent_loop(messages, max_turns).
NewSub(args) ==
    [pc |-> "loop", messages |-> InitialMessages(args), iteration |-> 0, turn |-> 0,
     tool_calls |-> <<>>, idx |-> 0, max_turns |-> MaxTurns,
     ollama |-> SubagentClient(args), result |-> None, args |-> args]

BoolText(b) == IF b THEN "true" ELSE "false"

\* The text execute_tool returns for a finished subagent (the elapsed time
\* is left out).
FormatResult(args, content) ==
    <<"=== Subagent Task Complete ===\n">> \o Unwrap(args.description)
    \o <<SubagentTypeStr(args),
         BoolText(IncludeTools(args) /\ UsesTools(SubagentTypeStr(args)))>>
    \o content

(***************************************************************************)
(* What the model may answer.                                              *)
(***************************************************************************)
KNoFn == [id |-> Some("c3"), function |-> FALSE, name |-> "", arguments |-> NoArgs]
KUnknown == Call(Some("c5"), TRUE, "nope", NoArgs)
KTask == Call(Some("c6"), TRUE, "task",
              TaskArgs(Some("explore"), Some(<<"d">>), Some(<<"p">>), Some(TRUE)))
KTaskNoPrompt == Call(Some("c7"), TRUE, "task",
                      TaskArgs(None, Some(<<"d">>), None, None))

\* A delegation to the role that may not use tools, asking for tools.
KTaskPlan == Call(Some("c8"), TRUE, "task",
                  TaskArgs(Some("plan"), Some(<<"d">>), Some(<<"p">>), Some(TRUE)))
\* A delegation that names neither a role nor include_tools.
KTaskDefault == Call(Some("c9"), TRUE, "task",
                     TaskArgs(None, Some(<<"d">>), Some(<<"p">>), None))

Prompts == {<<"2+2?">>}

TextResponses == {OllamaResponse(<<"x">>, <<>>), OllamaResponse(<<"y">>, <<>>)}

CallLists == {<<K1>>, <<KNoFn, K3, K2>>, <<KUnknown>>, <<KTask>>, <<KTaskNoPrompt>>}

ChatResponses == TextResponses \cup {OllamaResponse(<<>>, calls) : calls \in CallLists}

\* A call without id naming no tool.
KUnknownNoId == Call(None, TRUE, "nope", NoArgs)

SubCallLists == {<<KNoFn, KUnknownNoId, KTask, KUnknown>>}

SubChatResponses ==
    {OllamaResponse(<<"x">>, <<>>)} \cup {OllamaResponse(<<"w">>, calls) : calls \in SubCallLists}

\* The answers of a model that delegates: every role and include_tools
\* setting the delegation branch tells apart, and an unknown role.
KTaskBadRole == Call(Some("c10"), TRUE, "task",
                     TaskArgs(Some("claude-code-guide"), Some(<<"d">>), Some(<<"p">>), Some(TRUE)))

DelegationLists == {<<KTask>>, <<KTaskPlan>>, <<KTaskDefault>>, <<KTaskBadRole>>}

DelegationResponses ==
    {OllamaResponse(<<"x">>, <<>>)} \cup {OllamaResponse(<<>>, calls) : calls \in DelegationLists}

\* The answers of the model a subagent talks to.
SubTextResponses == {OllamaResponse(<<"x">>, <<>>), OllamaResponse(<<"z">>, <<>>)}

SubagentCallLists == {<<KNoFn, K3, KTask, KUnknown>>, <<K1>>}

SubagentResponses ==
    SubTextResponses \cup {OllamaResponse(<<"w">>, calls) : calls \in SubagentCallLists}

HasTask(resp) ==
    IsSome(resp.tool_calls)
    /\ \E k \in 1..Len(Unwrap(resp.tool_calls)) :
           Unwrap(resp.tool_calls)[k].function /\ Unwrap(resp.tool_calls)[k].name = "task"

\* Delegations begun in the current history (the tool calls named task that
\* the assistant messages record).
RECURSIVE Delegations(_)
Delegations(msgs) ==
    IF msgs = <<>> THEN 0
    ELSE Delegations(Tail(msgs))
         + (IF IsSome(Head(msgs).tool_calls)
            THEN Cardinality({k \in 1..Len(Unwrap(Head(msgs).tool_calls)) :
                     Unwrap(Head(msgs).tool_calls)[k].name = "task"})
            ELSE 0)

(***************************************************************************)
(* Agent::invoke.                                                          *)
(***************************************************************************)
AgentInit ==
    /\ AgentIdle
    /\ wire = <<>>
    /\ verbose = TRUE
    /\ dpc = "idle"
    /\ pos = 0
    /\ status = 0
    /\ response = <<>>
    /\ thinking_buffer = <<>>
    /\ tool_calls_buffer = <<>>
    /\ ui = <<>>
    /\ dresult = None
    /\ spinner_running = FALSE
    /\ spinner = "none"

\* The user enters a prompt: invoke pushes the user message.
Invoke(prompt) ==
    /\ pc = "idle"
    /\ fpc = "idle"
    /\ spawn.pc = "idle"
    /\ Len(messages) <= MaxHistory
    /\ messages' = Append(messages, UserMsg(prompt))
    /\ pc' = "loop"
    /\ iteration' = 0
    /\ tool_calls' = <<>>
    /\ idx' = 0
    /\ outcome' = None
    /\ chat_calls' = 0
    /\ log' = <<>>
    /\ before' = messages
    /\ UNCHANGED <<sub, dvars, fvars>>

\* The head of the loop: the iteration ceiling.
LoopHead ==
    /\ pc = "loop"
    /\ iteration' = iteration + 1
    /\ IF iteration + 1 > MaxIterations
       THEN /\ pc' = "idle"
            /\ outcome' = Some(Err(<<"Too many tool call iterations">>))
       ELSE /\ pc' = "chat"
            /\ UNCHANGED outcome
    /\ UNCHANGED <<messages, tool_calls, idx, chat_calls, log, before, sub, dvars, fvars>>

\* execute_with_messages returns Ok(resp).
ChatOk(resp) ==
    /\ pc = "chat"
    /\ HasTask(resp) => Delegations(messages) < MaxDelegations
    /\ chat_calls' = chat_calls + 1
    /\ log' = Append(log, resp)
    /\ IF IsSome(resp.tool_calls)
       THEN /\ messages' = Append(messages, AssistantCalls(resp))
            /\ tool_calls' = Unwrap(resp.tool_calls)
            /\ idx' = 1
            /\ pc' = "dispatch"
            /\ UNCHANGED outcome
       ELSE /\ messages' = Append(messages, AssistantFinal(resp))
            /\ outcome' = Some(Ok(<<>>))
            /\ pc' = "idle"
            /\ UNCHANGED <<tool_calls, idx>>
    /\ UNCHANGED <<iteration, before, sub, dvars, fvars>>

\* Mutant: a failed model call restores the conversation of before the turn.
ChatErrRollback ==
    /\ pc = "chat"
    /\ chat_calls' = chat_calls + 1
    /\ outcome' = Some(Err(<<"transport">>))
    /\ pc' = "idle"
    /\ messages' = before
    /\ UNCHANGED <<iteration, tool_calls, idx, log, before, sub, dvars, fvars>>

\* execute_with_messages returns Err: the ? returns it from invoke.
ChatErr ==
    /\ pc = "chat"
    /\ chat_calls' = chat_calls + 1
    /\ outcome' = Some(Err(<<"transport">>))
    /\ pc' = "idle"
    /\ UNCHANGED <<messages, iteration, tool_calls, idx, log, before, sub, dvars, fvars>>

\* The for loop moves to the next call, or the loop continues.
Advance ==
    /\ idx' = idx + 1
    /\ pc' = IF idx < Len(tool_calls) THEN "dispatch" ELSE "loop"

\* A call entry without a "function" field is passed over.
SkipEntry ==
    /\ pc = "dispatch"
    /\ ~tool_calls[idx].function
    /\ Advance
    /\ UNCHANGED <<messages, iteration, tool_calls, outcome, chat_calls, log, before, sub, dvars, fvars>>

\* Mutant: a failing tool is answered like a succeeding one and the for
\* loop goes on.
DispatchToolContinue(r) ==
    /\ pc = "dispatch"
    /\ tool_calls[idx].function
    /\ tool_calls[idx].name # "task"
    /\ messages' = Append(messages,
                      ToolMsg(tool_calls[idx], ExecuteRegular(tool_calls[idx].name, r).value))
    /\ Advance
    /\ UNCHANGED <<iteration, tool_calls, outcome, chat_calls, log, before, sub, dvars, fvars>>

\* Mutant: the tool message overwrites the last message of the conversation.
DispatchToolOverwriting(r) ==
    /\ pc = "dispatch"
    /\ tool_calls[idx].function
    /\ tool_calls[idx].name # "task"
    /\ LET res == ExecuteRegular(tool_calls[idx].name, r)
       IN IF res.ok
          THEN /\ messages' = [messages EXCEPT ![Len(messages)] =
                                   ToolMsg(tool_calls[idx], res.value)]
               /\ Advance
               /\ UNCHANGED outcome
          ELSE /\ outcome' = Some(Err(res.value))
               /\ pc' = "idle"
               /\ UNCHANGED <<messages, idx>>
    /\ UNCHANGED <<iteration, tool_calls, chat_calls, log, before, sub, dvars, fvars>>

\* execute_tool on a call that does not name the delegation tool.
DispatchTool(r) ==
    /\ pc = "dispatch"
    /\ tool_calls[idx].function
    /\ tool_calls[idx].name # "task"
    /\ LET res == ExecuteRegular(tool_calls[idx].name, r)
       IN IF res.ok
          THEN /\ messages' = Append(messages, ToolMsg(tool_calls[idx], res.value))
               /\ Advance
               /\ UNCHANGED outcome
          ELSE /\ outcome' = Some(Err(res.value))
               /\ pc' = "idle"
               /\ UNCHANGED <<messages, idx>>
    /\ UNCHANGED <<iteration, tool_calls, chat_calls, log, before, sub, dvars, fvars>>

\* Mutant: a call naming the delegation tool is looked up in the registry
\* and answered by what the registered tool's execute returns.
DelegateThroughRegistry ==
    /\ pc = "dispatch"
    /\ tool_calls[idx].function
    /\ tool_calls[idx].name = "task"
    /\ \E r \in ToolOutcomes :
          LET res == ExecuteRegular(tool_calls[idx].name, r)
          IN IF res.ok
             THEN /\ messages' = Append(messages, ToolMsg(tool_calls[idx], res.value))
                  /\ Advance
                  /\ UNCHANGED outcome
             ELSE /\ outcome' = Some(Err(res.value))
                  /\ pc' = "idle"
                  /\ UNCHANGED <<messages, idx>>
    /\ UNCHANGED <<iteration, tool_calls, chat_calls, log, before, sub, dvars, fvars>>

\* execute_tool on a call naming the delegation tool: the arguments are
\* parsed, the subagent is built and run_subagent_loop is entered.
Delegate ==
    /\ pc = "dispatch"
    /\ tool_calls[idx].function
    /\ tool_calls[idx].name = "task"
    /\ LET args == tool_calls[idx].arguments
       IN IF IsSome(TaskArgError(args))
          THEN /\ outcome' = Some(Err(Unwrap(TaskArgError(args))))
               /\ pc' = "idle"
               /\ UNCHANGED sub
          ELSE /\ sub' = NewSub(args)
               /\ pc' = "sub"
               /\ UNCHANGED outcome
    /\ UNCHANGED <<messages, iteration, tool_calls, idx, chat_calls, log, before, dvars, fvars>>

\* Agent::clear_history (the /clear command).
ClearHistory ==
    /\ pc = "idle"
    /\ messages # <<>>
    /\ messages' = <<>>
    /\ outcome' = None
    /\ chat_calls' = 0
    /\ log' = <<>>
    /\ before' = <<>>
    /\ UNCHANGED <<pc, iteration, tool_calls, idx, sub, dvars, fvars>>

(***************************************************************************)
(* Agent::run_subagent_loop, run by execute_tool on the subagent.          *)
(***************************************************************************)
LastAssistant(msgs) ==
    LET hits == {k \in 1..Len(msgs) : msgs[k].role = "assistant"}
    IN IF hits = {} THEN None
       ELSE Some(msgs[CHOOSE k \in hits : \A j \in hits : j <= k])

\* The head of the loop: the turn ceiling, then the iteration ceiling.
SubLoopHead ==
    /\ pc = "sub"
    /\ sub.pc = "loop"
    /\ sub' =
         IF sub.turn + 1 > sub.max_turns
         THEN [sub EXCEPT !.turn = @ + 1, !.pc = "returned",
                 !.result = IF IsSome(LastAssistant(sub.messages))
                            THEN Some(Ok(Unwrap(LastAssistant(sub.messages)).content))
                            ELSE Some(Err(<<"Subagent: No response generated">>))]
         ELSE IF sub.iteration + 1 > SubMaxIterations
         THEN [sub EXCEPT !.turn = @ + 1, !.iteration = @ + 1, !.pc = "returned",
                 !.result = Some(Err(<<"Subagent: Too many iterations in one turn">>))]
         ELSE [sub EXCEPT !.turn = @ + 1, !.iteration = @ + 1, !.pc = "chat"]
    /\ UNCHANGED <<messages, pc, iteration, tool_calls, idx, outcome, chat_calls, log,
                   before, dvars, fvars>>

SubChatOk(resp) ==
    /\ pc = "sub"
    /\ sub.pc = "chat"
    /\ sub' =
         IF IsSome(resp.tool_calls)
         THEN [sub EXCEPT !.messages = Append(@, AssistantCalls(resp)),
                          !.tool_calls = Unwrap(resp.tool_calls),
                          !.idx = 1,
                          !.pc = "dispatch"]
         ELSE [sub EXCEPT !.messages = Append(@, AssistantFinal(resp)),
                          !.result = Some(Ok(resp.content)),
                          !.pc = "returned"]
    /\ UNCHANGED <<messages, pc, iteration, tool_calls, idx, outcome, chat_calls, log,
                   before, dvars, fvars>>

SubChatErr ==
    /\ pc = "sub"
    /\ sub.pc = "chat"
    /\ sub' = [sub EXCEPT !.result = Some(Err(<<"transport">>)), !.pc = "returned"]
    /\ UNCHANGED <<messages, pc, iteration, tool_calls, idx, outcome, chat_calls, log,
                   before, dvars, fvars>>

SubAdvance(s) ==
    [s EXCEPT !.idx = @ + 1,
              !.pc = IF s.idx < Len(s.tool_calls) THEN "dispatch" ELSE "loop"]

SubSkipEntry ==
    /\ pc = "sub"
    /\ sub.pc = "dispatch"
    /\ ~sub.tool_calls[sub.idx].function
    /\ sub' = SubAdvance(sub)
    /\ UNCHANGED <<messages, pc, iteration, tool_calls, idx, outcome, chat_calls, log,
                   before, dvars, fvars>>

\* Mutant: another rejection text.
RecursionGuardOther == <<"error", "rejected">>

RecursionGuard ==
    <<"error", "Subagents cannot spawn additional subagents",
      "suggestion", "Complete the task yourself using available tools">>

\* A call naming the delegation tool is answered with the recursion guard.
SubRejectTask ==
    /\ pc = "sub"
    /\ sub.pc = "dispatch"
    /\ sub.tool_calls[sub.idx].function
    /\ sub.tool_calls[sub.idx].name = "task"
    /\ sub' = SubAdvance([sub EXCEPT
                 !.messages = Append(@, ToolMsg(sub.tool_calls[sub.idx], RecursionGuard))])
    /\ UNCHANGED <<messages, pc, iteration, tool_calls, idx, outcome, chat_calls, log,
                   before, dvars, fvars>>

\* Mutant: the error of a tool is dropped, the tool message is empty.
SubToolTextSilent(res) == IF res.ok THEN res.value ELSE <<>>

\* Any other call goes to execute_tool; an error becomes the tool message.
SubToolText(res) ==
    IF res.ok THEN res.value ELSE <<"Tool execution error: ">> \o res.value

SubDispatchTool(r) ==
    /\ pc = "sub"
    /\ sub.pc = "dispatch"
    /\ sub.tool_calls[sub.idx].function
    /\ sub.tool_calls[sub.idx].name # "task"
    /\ LET call == sub.tool_calls[sub.idx]
           res == ExecuteRegular(call.name, r)
       IN sub' = SubAdvance([sub EXCEPT
                   !.messages = Append(@, ToolMsg(call, SubToolText(res)))])
    /\ UNCHANGED <<messages, pc, iteration, tool_calls, idx, outcome, chat_calls, log,
                   before, dvars, fvars>>

\* Mutant: the error of the subagent becomes the tool message and the turn
\* goes on.
SubJoinErrorAsToolMessage ==
    /\ pc = "sub"
    /\ sub.pc = "returned"
    /\ messages' = Append(messages,
           ToolMsg(tool_calls[idx],
                   IF Unwrap(sub.result).ok
                   THEN FormatResult(sub.args, Unwrap(sub.result).value)
                   ELSE <<"Tool execution error: ">> \o Unwrap(sub.result).value))
    /\ Advance
    /\ sub' = NoSub
    /\ UNCHANGED <<outcome, iteration, tool_calls, chat_calls, log, before, dvars, fvars>>

\* run_subagent_loop has returned: execute_tool formats the result, or its ?
\* returns the error, and invoke pushes the tool message, or its ? returns.
SubJoin ==
    /\ pc = "sub"
    /\ sub.pc = "returned"
    /\ IF Unwrap(sub.result).ok
       THEN /\ messages' = Append(messages,
                   ToolMsg(tool_calls[idx], FormatResult(sub.args, Unwrap(sub.result).value)))
            /\ Advance
            /\ UNCHANGED outcome
       ELSE /\ outcome' = Some(Err(Unwrap(sub.result).value))
            /\ pc' = "idle"
            /\ UNCHANGED <<messages, idx>>
    /\ sub' = NoSub
    /\ UNCHANGED <<iteration, tool_calls, chat_calls, log, before, dvars, fvars>>

Next ==
    \/ \E prompt \in Prompts : Invoke(prompt)
    \/ LoopHead
    \/ \E resp \in ChatResponses : ChatOk(resp)
    \/ ChatErr
    \/ SkipEntry
    \/ \E r \in ToolOutcomes : DispatchTool(r)
    \/ Delegate
    \/ ClearHistory
    \/ SubLoopHead
    \/ \E resp \in SubChatResponses : SubChatOk(resp)
    \/ SubChatErr
    \/ SubSkipEntry
    \/ SubRejectTask
    \/ \E r \in ToolOutcomes : SubDispatchTool(r)
    \/ SubJoin

Spec == AgentInit /\ [][Next]_vars

\* The steps of a running turn: everything but the user's prompt and /clear.
TurnStep ==
    \/ LoopHead
    \/ \E resp \in ChatResponses : ChatOk(resp)
    \/ ChatErr
    \/ SkipEntry
    \/ \E r \in ToolOutcomes : DispatchTool(r)
    \/ Delegate
    \/ SubLoopHead
    \/ \E resp \in SubChatResponses : SubChatOk(resp)
    \/ SubChatErr
    \/ SubSkipEntry
    \/ SubRejectTask
    \/ \E r \in ToolOutcomes : SubDispatchTool(r)
    \/ SubJoin

\* The turn is an awaited future: every chat call and every tool execution
\* returns and the runtime goes on polling, so a running turn takes its next
\* step.
SpecTermination == AgentInit /\ [][Next]_vars /\ WF_vars(TurnStep)

(***************************************************************************)
(* The same agent talking to a model that delegates: execute_tool's task   *)
(* branch and run_subagent_loop under every role.                          *)
(***************************************************************************)
SubagentNext ==
    \/ \E prompt \in Prompts : Invoke(prompt)
    \/ LoopHead
    \/ \E resp \in DelegationResponses : ChatOk(resp)
    \/ Delegate
    \/ SubLoopHead
    \/ \E resp \in SubagentResponses : SubChatOk(resp)
    \/ SubChatErr
    \/ SubSkipEntry
    \/ SubRejectTask
    \/ \E r \in ToolOutcomes : SubDispatchTool(r)
    \/ SubJoin

SpecSubagent == AgentInit /\ [][SubagentNext]_vars

(***************************************************************************)
(* Agent::spawn_multiple_tasks: one future per task, run concurrently by   *)
(* join_all, each calling spawn_task on an agent of its own.               *)
(***************************************************************************)
\* context_len > 10 (Agent::spawn_task_with_options)
ContextLimit == 10

\* Mutant: the whole context is copied.
ContextWindowUnbounded(context) == SelectSeq(context, LAMBDA msg : msg.role # "system")

\* The context messages copied into the subagent's conversation: of the last
\* 10 messages of the context, those that are not system messages.
ContextWindow(context) ==
    LET start == IF Len(context) > ContextLimit THEN Len(context) - ContextLimit ELSE 0
    IN SelectSeq(SubSeq(context, start + 1, Len(context)), LAMBDA msg : msg.role # "system")

\* Mutant: the conversation is seeded without the role's system prompt.
SpawnMessagesNoSystem(args, context_messages) ==
    (IF IsSome(context_messages) THEN ContextWindow(Unwrap(context_messages)) ELSE <<>>)
    \o <<UserMsg(FullPrompt(Unwrap(args.description), Unwrap(args.prompt)))>>

\* The conversation spawn_task_with_options seeds the subagent with.
SpawnMessages(args, context_messages) ==
    (IF IsSome(SystemPrompt(SubagentTypeStr(args)))
     THEN <<Msg("system", Unwrap(SystemPrompt(SubagentTypeStr(args))), None, None)>>
     ELSE <<>>)
    \o (IF IsSome(context_messages) THEN ContextWindow(Unwrap(context_messages)) ELSE <<>>)
    \o <<UserMsg(FullPrompt(Unwrap(args.description), Unwrap(args.prompt)))>>

\* The longest task list given to spawn_multiple_tasks.
MaxTasks == 3

SubAgentTask(type, description, prompt, include_context, include_tools) ==
    [subagent_type |-> type, description |-> description, prompt |-> prompt,
     include_context |-> include_context, include_tools |-> include_tools]

TaskPool ==
    {SubAgentTask("explore", <<"d1">>, <<"p1">>, FALSE, TRUE),
     SubAgentTask("plan", <<"d2">>, <<"p2">>, FALSE, FALSE)}

TaskLists == SeqsUpTo(TaskPool, MaxTasks)

\* spawn_task passes the role, the description and the prompt on, with no
\* context and include_tools = false.
SpawnTaskArgs(task) ==
    TaskArgs(Some(task.subagent_type), Some(task.description), Some(task.prompt), Some(FALSE))

\* What run_subagent_loop may return to spawn_task_with_options.
SubagentResults ==
    {Ok(<<"x">>), Ok(<<"z">>), Err(<<"transport">>),
     Err(<<"Subagent: Too many iterations in one turn">>)}

Created == [pc |-> "created", messages |-> <<>>, ollama |-> BareClient, result |-> None]

\* The call: the futures are built, none has run yet.
SpawnMultipleTasks(ts) ==
    /\ fpc = "idle"
    /\ spawn.pc = "idle"
    /\ pc = "idle"
    /\ tasks' = ts
    /\ futures' = [i \in 1..Len(ts) |-> Created]
    /\ completed' = <<>>
    /\ fpc' = "joining"
    /\ fresult' = None
    /\ UNCHANGED <<spawn, xvars, dvars, avars>>

\* Future i is polled first: spawn_task_with_options builds the subagent's
\* conversation and client and enters run_subagent_loop.
FutureStart(i) ==
    /\ fpc = "joining"
    /\ futures[i].pc = "created"
    /\ futures' = [futures EXCEPT ![i] =
                      [pc |-> "running",
                       messages |-> SpawnMessages(SpawnTaskArgs(tasks[i]), None),
                       ollama |-> SubagentClient(SpawnTaskArgs(tasks[i])),
                       result |-> None]]
    /\ UNCHANGED <<tasks, completed, fpc, fresult, spawn, xvars, dvars, avars>>

\* run_subagent_loop of future i returns r: the future completes with the
\* formatted result, or with the error.
FutureReturn(i, r) ==
    /\ fpc = "joining"
    /\ futures[i].pc = "running"
    /\ futures' = [futures EXCEPT ![i].pc = "done",
                                  ![i].result =
                                      Some(IF r.ok
                                           THEN Ok(FormatResult(SpawnTaskArgs(tasks[i]), r.value))
                                           ELSE r)]
    /\ completed' = Append(completed, i)
    /\ UNCHANGED <<tasks, fpc, fresult, spawn, xvars, dvars, avars>>

\* Mutant: the outputs in the order the futures completed.
JoinAllByCompletion(futs) ==
    [k \in 1..Len(futs) |-> Unwrap(futs[completed[k]].result)]

\* join_all: the outputs of the futures, in the order of the futures.
JoinAll(futs) == [i \in 1..Len(futs) |-> Unwrap(futs[i].result)]

\* Mutant: the error returned is the one of the future that failed first.
CollectFirstInTime(results) ==
    LET bad == {k \in 1..Len(completed) : ~results[completed[k]].ok}
    IN IF bad = {}
       THEN Ok([i \in 1..Len(results) |-> results[i].value])
       ELSE results[completed[CHOOSE k \in bad : \A j \in bad : k <= j]]

\* for result in results { outputs.push(result?) }
Collect(results) ==
    LET bad == {i \in 1..Len(results) : ~results[i].ok}
    IN IF bad = {}
       THEN Ok([i \in 1..Len(results) |-> results[i].value])
       ELSE results[CHOOSE i \in bad : \A j \in bad : i <= j]

\* Mutant: the join returns as soon as one future has failed.
CollectResultsOnFirstError ==
    /\ fpc = "joining"
    /\ LET failed == {i \in 1..Len(futures) :
                         futures[i].pc = "done" /\ ~Unwrap(futures[i].result).ok}
       IN IF failed # {}
          THEN fresult' = Some(Unwrap(futures[CHOOSE i \in failed : TRUE].result))
          ELSE /\ \A i \in 1..Len(futures) : futures[i].pc = "done"
               /\ fresult' = Some(Collect(JoinAll(futures)))
    /\ fpc' = "returned"
    /\ UNCHANGED <<tasks, futures, completed, spawn, xvars, dvars, avars>>

\* Every future is done: join_all returns and the results are collected.
CollectResults ==
    /\ fpc = "joining"
    /\ \A i \in 1..Len(futures) : futures[i].pc = "done"
    /\ fresult' = Some(Collect(JoinAll(futures)))
    /\ fpc' = "returned"
    /\ UNCHANGED <<tasks, futures, completed, spawn, xvars, dvars, avars>>

\* The caller drops what spawn_multiple_tasks returned.
DropResults ==
    /\ fpc = "returned"
    /\ tasks' = <<>>
    /\ futures' = <<>>
    /\ completed' = <<>>
    /\ fpc' = "idle"
    /\ fresult' = None
    /\ UNCHANGED <<spawn, xvars, dvars, avars>>

FanOutNext ==
    \/ \E ts \in TaskLists : SpawnMultipleTasks(ts)
    \/ \E i \in 1..Len(futures) : FutureStart(i)
    \/ \E i \in 1..Len(futures), r \in SubagentResults : FutureReturn(i, r)
    \/ CollectResults
    \/ DropResults

SpecFanOut == AgentInit /\ [][FanOutNext]_vars

(***************************************************************************)
(* Agent::spawn_task_with_options called directly, with or without context *)
(* messages.                                                               *)
(***************************************************************************)
\* The longest context given to spawn_task_with_options.
MaxContext == 11

Stamps == <<"1", "2", "3", "4", "5", "6", "7", "8", "9", "10", "11", "12", "13">>

\* A context whose i-th message has role roles[i] and a content of its own.
ContextOf(roles) == [i \in 1..Len(roles) |-> Msg(roles[i], <<Stamps[i]>>, None, None)]

\* A history that begins with an answered tool call and goes on with n user
\* messages.
ToolContext(n) ==
    <<Msg("assistant", <<>>, Some(<<K1>>), None), ToolMsg(K1, <<"out">>)>>
    \o [i \in 1..n |-> Msg("user", <<Stamps[i]>>, None, None)]

Contexts ==
    {ContextOf(roles) : roles \in SeqsUpTo({"user", "system"}, MaxContext)}
    \cup {ToolContext(n) : n \in 0..(MaxContext - 2)}

SpawnCalls ==
    {TaskArgs(Some("general-purpose"), Some(<<"d0">>), Some(<<"p0">>), Some(FALSE)),
     TaskArgs(Some("explore"), Some(<<"d1">>), Some(<<"p1">>), Some(TRUE)),
     TaskArgs(Some("plan"), Some(<<"d2">>), Some(<<"p2">>), Some(TRUE))}

\* spawn_task_with_options up to the call of run_subagent_loop.
SpawnTaskWithOptions(args, context_messages) ==
    /\ spawn.pc = "idle"
    /\ fpc = "idle"
    /\ pc = "idle"
    /\ spawn' = [pc |-> "running", args |-> args, context |-> context_messages,
                 messages |-> SpawnMessages(args, context_messages),
                 ollama |-> SubagentClient(args), result |-> None]
    /\ UNCHANGED <<tasks, futures, completed, fpc, fresult, xvars, dvars, avars>>

\* run_subagent_loop returns r: the formatted result, or the error, is returned.
SpawnReturn(r) ==
    /\ spawn.pc = "running"
    /\ spawn' = [spawn EXCEPT !.pc = "returned",
                              !.result = Some(IF r.ok
                                              THEN Ok(FormatResult(spawn.args, r.value))
                                              ELSE r)]
    /\ UNCHANGED <<tasks, futures, completed, fpc, fresult, xvars, dvars, avars>>

\* The caller drops what spawn_task_with_options returned.
DropSpawn ==
    /\ spawn.pc = "returned"
    /\ spawn' = NoSpawn
    /\ UNCHANGED <<tasks, futures, completed, fpc, fresult, xvars, dvars, avars>>

SpawnNext ==
    \/ /\ spawn.pc = "idle"
       /\ \E args \in SpawnCalls, context \in Contexts :
              SpawnTaskWithOptions(args, Some(context))
    \/ \E args \in SpawnCalls : SpawnTaskWithOptions(args, None)
    \/ \E r \in SubagentResults : SpawnReturn(r)
    \/ DropSpawn

SpecSpawn == AgentInit /\ [][SpawnNext]_vars

(***************************************************************************)
(* SubAgentExecution: the record that tracks one subagent task.  Its       *)
(* methods are public and unguarded, so they are called in any order.      *)
(***************************************************************************)
\* The latest reading of the clock.
MaxClock == 3

ExecutionIds == {1, 2}

ExecutionTasks == {TestTask, SubAgentTask("plan", <<"d2">>, <<"p2">>, FALSE, FALSE)}

ExecutionResults == {<<"Task result">>, <<"other">>}

ExecutionErrors == {<<"Error message">>, <<"other">>}

\* Instant::now: the clock never goes back.
Now(t) == t \in clock..MaxClock /\ clock' = t

\* SubAgentExecution::duration, read when the clock shows now.
ExecutionDuration(exec, now) ==
    IF IsSome(exec.start_time) /\ IsSome(exec.end_time)
    THEN Some(IF Unwrap(exec.end_time) >= Unwrap(exec.start_time)
              THEN Unwrap(exec.end_time) - Unwrap(exec.start_time)
              ELSE 0)
    ELSE IF IsSome(exec.start_time)
    THEN Some(now - Unwrap(exec.start_time))
    ELSE None

ExecutionNew(id, task) ==
    /\ execution' = NewExecution(id, task)
    /\ UNCHANGED <<clock, tasks, futures, completed, fpc, fresult, spawn, dvars, avars>>

ExecutionStart(t) ==
    /\ Now(t)
    /\ execution' = [execution EXCEPT !.status = Status("Running", None),
                                      !.start_time = Some(t)]
    /\ UNCHANGED <<tasks, futures, completed, fpc, fresult, spawn, dvars, avars>>

\* Mutant: the end time is not recorded.
ExecutionCompleteNoEnd(t, r) ==
    /\ Now(t)
    /\ execution' = [execution EXCEPT !.status = Status("Completed", None),
                                      !.result = Some(r)]
    /\ UNCHANGED <<tasks, futures, completed, fpc, fresult, spawn, dvars, avars>>

ExecutionComplete(t, r) ==
    /\ Now(t)
    /\ execution' = [execution EXCEPT !.status = Status("Completed", None),
                                      !.end_time = Some(t),
                                      !.result = Some(r)]
    /\ UNCHANGED <<tasks, futures, completed, fpc, fresult, spawn, dvars, avars>>

ExecutionFail(t, e) ==
    /\ Now(t)
    /\ execution' = [execution EXCEPT !.status = Status("Failed", Some(e)),
                                      !.end_time = Some(t)]
    /\ UNCHANGED <<tasks, futures, completed, fpc, fresult, spawn, dvars, avars>>

ExecutionNext ==
    \/ \E id \in ExecutionIds, task \in ExecutionTasks : ExecutionNew(id, task)
    \/ \E t \in 0..MaxClock : ExecutionStart(t)
    \/ \E t \in 0..MaxClock, r \in ExecutionResults : ExecutionComplete(t, r)
    \/ \E t \in 0..MaxClock, e \in ExecutionErrors : ExecutionFail(t, e)

SpecExecution == AgentInit /\ [][ExecutionNext]_vars

(***************************************************************************)
(* An agent whose turns delegate, and which between turns fans tasks out   *)
(* or spawns a task with its own history as context.  The calls take       *)
(* &mut self, so one agent runs one of them at a time.                     *)
(***************************************************************************)
\* The answers of the model the delegated subagent talks to.
OwnershipSubResponses ==
    {OllamaResponse(<<"x">>, <<>>), OllamaResponse(<<"w">>, <<KTask, K1>>)}

OwnershipTaskLists ==
    {<<SubAgentTask("explore", <<"d1">>, <<"p1">>, TRUE, TRUE),
       SubAgentTask("plan", <<"d2">>, <<"p2">>, FALSE, FALSE)>>}

OwnershipResults == {Ok(<<"x">>), Err(<<"transport">>)}

OwnershipNext ==
    \/ \E prompt \in Prompts : Invoke(prompt)
    \/ LoopHead
    \/ \E resp \in DelegationResponses : ChatOk(resp)
    \/ Delegate
    \/ SubLoopHead
    \/ \E resp \in OwnershipSubResponses : SubChatOk(resp)
    \/ SubChatErr
    \/ SubRejectTask
    \/ SubDispatchTool(Ok(<<"out">>))
    \/ SubJoin
    \/ \E ts \in OwnershipTaskLists : SpawnMultipleTasks(ts)
    \/ \E i \in 1..Len(futures) : FutureStart(i)
    \/ \E i \in 1..Len(futures), r \in OwnershipResults : FutureReturn(i, r)
    \/ CollectResults
    \/ DropResults
    \/ \E args \in SpawnCalls : SpawnTaskWithOptions(args, Some(messages))
    \/ \E args \in SpawnCalls : SpawnTaskWithOptions(args, None)
    \/ \E r \in OwnershipResults : SpawnReturn(r)
    \/ DropSpawn

SpecOwnership == AgentInit /\ [][OwnershipNext]_vars


(***************************************************************************)
(* Vocabulary of the loop claims.                                          *)
(***************************************************************************)
TurnEnded == pc = "idle" /\ IsSome(outcome)

TooMany == Err(<<"Too many tool call iterations">>)

AllToolResponses(l) == \A k \in 1..Len(l) : IsSome(l[k].tool_calls)

\* The messages appended since the turn began.
TurnMessages == SubSeq(messages, Len(before) + 1, Len(messages))

ToolMessages(msgs) == SelectSeq(msgs, LAMBDA m : m.role = "tool")

WithFunction(calls) == SelectSeq(calls, LAMBDA c : c.function)

RECURSIVE CallsWithFunction(_)
CallsWithFunction(l) ==
    IF l = <<>> THEN 0
    ELSE (IF IsSome(Head(l).tool_calls) THEN Len(WithFunction(Unwrap(Head(l).tool_calls))) ELSE 0)
         + CallsWithFunction(Tail(l))

\* Every chat call of the turn returned a response and every call that was
\* dispatched was answered.
NoFailure ==
    /\ chat_calls = Len(log)
    /\ Len(ToolMessages(TurnMessages)) = CallsWithFunction(log)

(***************************************************************************)
(* C1 (as claimed): when the model requests a tool call on every response, *)
(* the chat client is called exactly 5 times and invoke fails with 'Too    *)
(* many tool call iterations'.                                             *)
(***************************************************************************)
C1_AlwaysFiveCalls ==
    (TurnEnded /\ log # <<>> /\ AllToolResponses(log))
        => (chat_calls = 5 /\ Unwrap(outcome) = TooMany)

\* The turn ended on a chat call that returned an error.
ChatFailed == chat_calls = Len(log) + 1

\* The turn ended in the for loop over the calls of the latest response: a
\* call that was to be dispatched has no tool message.
DispatchFailed ==
    /\ chat_calls = Len(log)
    /\ Len(ToolMessages(TurnMessages)) < CallsWithFunction(log)

(***************************************************************************)
(* C1 (amended): a model that requests a tool call on every response never *)
(* makes the turn succeed and the chat client is never called more than 5  *)
(* times in a turn.  Such a turn ends in one of three ways: a chat call    *)
(* returns an error, which invoke returns (the failed call being one of    *)
(* the at most 5); or the dispatch of a requested call fails, after 1 to 5 *)
(* chat calls, and invoke returns the dispatch's own error at once, with   *)
(* no tool message for the call and no further chat call; or, no chat call *)
(* and no dispatch having failed, the chat client has been called exactly  *)
(* 5 times and invoke fails with 'Too many tool call iterations'.  The     *)
(* ceiling error is returned in no other case.                             *)
(***************************************************************************)
C1_FiveCallsThenCeiling ==
    /\ [](chat_calls <= 5)
    /\ []((TurnEnded /\ AllToolResponses(log)) => ~Unwrap(outcome).ok)
    /\ []((TurnEnded /\ AllToolResponses(log)) =>
             \/ /\ NoFailure
                /\ Unwrap(outcome) = TooMany
                /\ chat_calls = 5
                /\ Len(log) = 5
             \/ /\ ChatFailed
                /\ Unwrap(outcome) = Err(<<"transport">>)
                /\ chat_calls \in 1..5
             \/ /\ DispatchFailed
                /\ Unwrap(outcome) # TooMany
                /\ chat_calls \in 1..5
                /\ idx \in 1..Len(tool_calls)
                /\ tool_calls = Unwrap(log[Len(log)].tool_calls)
                /\ tool_calls[idx].function)
    /\ [][(pc \in {"dispatch", "sub"} /\ pc' = "idle") =>
             /\ IsSome(outcome')
             /\ ~Unwrap(outcome').ok
             /\ Unwrap(outcome') # TooMany
             /\ messages' = messages
             /\ chat_calls' = chat_calls
             /\ log' = log]_vars
    /\ [][(IsSome(outcome') /\ Unwrap(outcome') = TooMany /\ outcome' # outcome) =>
             /\ pc = "loop"
             /\ chat_calls = 5
             /\ chat_calls' = 5]_vars

\* The turn has failed on the ceiling.
C1_Witness ==
    /\ TurnEnded
    /\ Unwrap(outcome) = TooMany
    /\ chat_calls = 5
    /\ AllToolResponses(log)

(***************************************************************************)
(* C2: when the model answers with tool calls on its first k responses     *)
(* (k < 5, every dispatch succeeding) and with plain text on response k+1, *)
(* the turn is Done after exactly k+1 model calls and the last message is  *)
(* an assistant message without tool_calls holding that text; for k = 0    *)
(* the turn appends exactly a user message and an assistant message.       *)
(***************************************************************************)
C2_TextResponseEndsTurn ==
    /\ (log # <<>> /\ ~IsSome(log[Len(log)].tool_calls))
           => /\ TurnEnded
              /\ Unwrap(outcome).ok
              /\ chat_calls = Len(log)
              /\ chat_calls <= 5
              /\ AllToolResponses(SubSeq(log, 1, Len(log) - 1))
              /\ messages[Len(messages)] =
                     [role |-> "assistant", content |-> log[Len(log)].content,
                      tool_calls |-> None, tool_call_id |-> None]
              /\ chat_calls = 1
                   => \E prompt \in Prompts :
                          messages = before \o
                              << [role |-> "user", content |-> prompt,
                                  tool_calls |-> None, tool_call_id |-> None],
                                 [role |-> "assistant", content |-> log[1].content,
                                  tool_calls |-> None, tool_call_id |-> None] >>
    /\ (TurnEnded /\ Unwrap(outcome).ok)
           => (log # <<>> /\ ~IsSome(log[Len(log)].tool_calls))
    /\ (TurnEnded /\ Unwrap(outcome) = TooMany) => Len(log) = 5

\* Four tool-call responses, then text on the fifth: Done after 5 calls.
C2_Witness ==
    /\ TurnEnded
    /\ Unwrap(outcome).ok
    /\ chat_calls = 5
    /\ messages[Len(messages)].content = <<"y">>

(***************************************************************************)
(* C3 (as claimed): in every conversation, each tool message's             *)
(* tool_call_id equals the id of some tool call recorded in the nearest    *)
(* preceding assistant message.                                            *)
(***************************************************************************)
RecordedCalls(m) == IF IsSome(m.tool_calls) THEN Unwrap(m.tool_calls) ELSE <<>>

IdIsRecorded(calls, id) == \E k \in 1..Len(calls) : calls[k].id = id

\* The conversation from message i on, calls being the tool calls recorded by
\* the nearest assistant message before message i (none when there is none).
RECURSIVE IdsAreRecordedIds(_, _, _)
IdsAreRecordedIds(conv, i, calls) ==
    IF i > Len(conv) THEN TRUE
    ELSE IF conv[i].role = "assistant"
    THEN IdsAreRecordedIds(conv, i + 1, RecordedCalls(conv[i]))
    ELSE /\ conv[i].role = "tool" => IdIsRecorded(calls, conv[i].tool_call_id)
         /\ IdsAreRecordedIds(conv, i + 1, calls)

C3_ToolCallIdIsRecordedId ==
    /\ IdsAreRecordedIds(messages, 1, <<>>)
    /\ IdsAreRecordedIds(sub.messages, 1, <<>>)

(***************************************************************************)
(* C3 (amended): in every conversation, each tool message's tool_call_id   *)
(* equals the id of some tool call recorded in the nearest preceding       *)
(* assistant message, or is the empty string when that call carries no id. *)
(***************************************************************************)
IdIsRecordedOrEmpty(calls, id) ==
    \E k \in 1..Len(calls) :
        \/ (IsSome(calls[k].id) /\ id = calls[k].id)
        \/ (~IsSome(calls[k].id) /\ id = <<"">>)

RECURSIVE IdsAreRecordedIdsOrEmpty(_, _, _)
IdsAreRecordedIdsOrEmpty(conv, i, calls) ==
    IF i > Len(conv) THEN TRUE
    ELSE IF conv[i].role = "assistant"
    THEN IdsAreRecordedIdsOrEmpty(conv, i + 1, RecordedCalls(conv[i]))
    ELSE /\ conv[i].role = "tool" => IdIsRecordedOrEmpty(calls, conv[i].tool_call_id)
         /\ IdsAreRecordedIdsOrEmpty(conv, i + 1, calls)

C3_ToolCallIdIsRecordedIdOrEmpty ==
    /\ IdsAreRecordedIdsOrEmpty(messages, 1, <<>>)
    /\ IdsAreRecordedIdsOrEmpty(sub.messages, 1, <<>>)

\* Tool messages stand in a subagent's conversation and in the top-level
\* one, some answering a call with an id and some a call without.
C3_Witness ==
    /\ pc = "sub"
    /\ Len(ToolMessages(sub.messages)) >= 3
    /\ \E i \in 1..Len(sub.messages) : sub.messages[i].tool_call_id = <<"">>
    /\ \E i \in 1..Len(messages) : messages[i].tool_call_id = <<"c2">>

(***************************************************************************)
(* C4 (as claimed): when a response carries tool calls c1..cn and every    *)
(* dispatch succeeds, the conversation ends, when the next model call is   *)
(* made, with one assistant message recording c1..cn followed by exactly n *)
(* tool messages, the i-th carrying the id of ci.                          *)
(***************************************************************************)
AboutToCallAgain ==
    \/ (pc = "loop" /\ iteration >= 1)
    \/ (pc = "chat" /\ iteration >= 2)

C4_OneToolMessagePerCall ==
    AboutToCallAgain
        => LET n == Len(tool_calls)
               at == Len(messages) - n
           IN /\ at >= 1
              /\ messages[at] = [role |-> "assistant", content |-> log[Len(log)].content,
                                 tool_calls |-> <<tool_calls>>, tool_call_id |-> None]
              /\ \A i \in 1..n :
                     /\ messages[at + i].role = "tool"
                     /\ messages[at + i].tool_call_id = tool_calls[i].id

(***************************************************************************)
(* C4 (amended): when a response carries tool calls c1..cn and every       *)
(* dispatch succeeds, the loop appends one assistant message recording     *)
(* c1..cn followed by exactly one tool message for every ci that has a     *)
(* function field, in request order, each carrying the id of its call (the *)
(* empty string when the call has no id), and only then makes the next     *)
(* model call; while the calls are dispatched, the tool messages of the    *)
(* calls before the current one are in place.                              *)
(***************************************************************************)
AnswersInPlace(calls) ==
    LET fc == WithFunction(calls)
        at == Len(messages) - Len(fc)
    IN /\ at >= 1
       /\ messages[at] = [role |-> "assistant", content |-> log[Len(log)].content,
                          tool_calls |-> <<tool_calls>>, tool_call_id |-> None]
       /\ \A i \in 1..Len(fc) :
              /\ messages[at + i].role = "tool"
              /\ messages[at + i].tool_calls = None
              /\ messages[at + i].tool_call_id =
                     (IF IsSome(fc[i].id) THEN fc[i].id ELSE <<"">>)

C4_OneToolMessagePerDispatchedCall ==
    /\ AboutToCallAgain => AnswersInPlace(tool_calls)
    /\ pc \in {"dispatch", "sub"} => AnswersInPlace(SubSeq(tool_calls, 1, idx - 1))
    /\ pc \in {"dispatch", "sub"} => chat_calls = Len(log)

\* A response with three entries, one of them without a function field and
\* one without an id, has been dispatched.
C4_Witness ==
    /\ pc = "loop"
    /\ iteration = 2
    /\ tool_calls = <<KNoFn, K3, K2>>
    /\ messages[Len(messages)].tool_call_id = <<"c2">>
    /\ messages[Len(messages) - 1].tool_call_id = <<"">>


(***************************************************************************)
(* C11: a subagent of the role without the tool capability (plan) is never *)
(* run with a chat client that carries tool definitions, even when         *)
(* include_tools = true is passed, and no subagent of any role gets tool   *)
(* definitions when include_tools is false or absent.                      *)
(***************************************************************************)
C11_NoToolsWithoutCapability ==
    pc = "sub"
        => (sub.ollama.tools
                => /\ sub.args.include_tools = <<TRUE>>
                   /\ sub.args.subagent_type # <<"plan">>)

\* A plan subagent asked for with include_tools = true is running, and has
\* had an answer from its tool-less client.
C11_Witness ==
    /\ pc = "sub"
    /\ sub.args.subagent_type = <<"plan">>
    /\ sub.args.include_tools = <<TRUE>>
    /\ ~sub.ollama.tools
    /\ sub.pc = "dispatch"

(***************************************************************************)
(* C12: inside run_subagent_loop every tool call naming the delegation     *)
(* tool 'task' is answered with a tool message carrying the call's id and  *)
(* the text 'Subagents cannot spawn additional subagents'; no nested       *)
(* subagent is constructed or run and the subagent loop is not aborted.    *)
(***************************************************************************)
SubAtTaskCall ==
    /\ pc = "sub"
    /\ sub.pc = "dispatch"
    /\ sub.tool_calls[sub.idx].function
    /\ sub.tool_calls[sub.idx].name = "task"

C12_DelegationRejectedInSubagent ==
    [][SubAtTaskCall =>
          LET call == sub.tool_calls[sub.idx]
              answer == sub'.messages[Len(sub'.messages)]
          IN /\ Len(sub'.messages) = Len(sub.messages) + 1
             /\ SubSeq(sub'.messages, 1, Len(sub.messages)) = sub.messages
             /\ answer.role = "tool"
             /\ IsSome(call.id) => answer.tool_call_id = call.id
             /\ \E k \in 1..Len(answer.content) :
                    answer.content[k] = "Subagents cannot spawn additional subagents"
             /\ sub'.pc \in {"dispatch", "loop"}
             /\ sub'.idx = sub.idx + 1
             /\ sub'.result = None
             /\ sub'.args = sub.args
             /\ sub'.ollama = sub.ollama
             /\ sub'.turn = sub.turn
             /\ sub'.iteration = sub.iteration
             /\ sub'.tool_calls = sub.tool_calls
             /\ pc' = "sub"
             /\ messages' = messages
             /\ outcome' = outcome]_vars

\* A delegation call has been rejected and the loop is at the next call of
\* the same response.
C12_Witness ==
    /\ pc = "sub"
    /\ sub.pc = "dispatch"
    /\ sub.idx = 4
    /\ sub.tool_calls[3].name = "task"
    /\ sub.messages[Len(sub.messages)].tool_call_id = <<"c6">>
    /\ sub.messages[Len(sub.messages)].content[2] = "Subagents cannot spawn additional subagents"


(***************************************************************************)
(* Vocabulary of the subagent-loop claims.                                 *)
(***************************************************************************)
SubReturned == pc = "sub" /\ sub.pc = "returned"

SubResult == Unwrap(sub.result)

\* The model calls that were answered: each one appended an assistant message.
SubAnswers == SelectSeq(sub.messages, LAMBDA msg : msg.role = "assistant")

IterationBoundError == Err(<<"Subagent: Too many iterations in one turn">>)

\* (a) the content of the first response without tool calls is returned.
EndsOnTextResponse ==
    /\ SubAnswers # <<>>
    /\ ~IsSome(SubAnswers[Len(SubAnswers)].tool_calls)
    /\ \A k \in 1..(Len(SubAnswers) - 1) : IsSome(SubAnswers[k].tool_calls)
    /\ sub.messages[Len(sub.messages)] = SubAnswers[Len(SubAnswers)]
    /\ SubResult = Ok(SubAnswers[Len(SubAnswers)].content)

\* (b) the turn ceiling is exhausted.
EndsOnTurnCeiling ==
    /\ sub.turn > sub.max_turns
    /\ \/ SubAnswers # <<>> /\ SubResult = Ok(SubAnswers[Len(SubAnswers)].content)
       \/ SubAnswers = <<>> /\ SubResult = Err(<<"Subagent: No response generated">>)

\* (c) the chat client failed.
EndsOnTransportError == SubResult = Err(<<"transport">>)

(***************************************************************************)
(* C13: run_subagent_loop ends in exactly one of these ways and no other:  *)
(* (a) it returns the content of the first model response without tool     *)
(* calls; (b) having exhausted the turn ceiling it returns the content of  *)
(* the last assistant message, or fails with 'No response generated' when  *)
(* there is none; (c) it fails with a chat-client (transport) error.       *)
(***************************************************************************)
C13_SubagentEndsThreeWays ==
    SubReturned => (EndsOnTextResponse \/ EndsOnTurnCeiling \/ EndsOnTransportError)

(***************************************************************************)
(* C14: with max_turns = 10, run_subagent_loop does not stop with an       *)
(* iteration-bound error before the model has been called 10 times (so a   *)
(* model that requests tools on 5 to 9 consecutive responses and then      *)
(* answers in text gets that text returned).                               *)
(***************************************************************************)
C14_NoIterationErrorBeforeTenCalls ==
    (SubReturned /\ sub.max_turns = 10 /\ SubResult = IterationBoundError)
        => Len(SubAnswers) >= 10


(***************************************************************************)
(* Vocabulary of the fan-out claims.                                       *)
(***************************************************************************)
FanOutReturned == fpc = "returned"

TaskResult(i) == Unwrap(futures[i].result)

AllSucceeded == \A i \in 1..Len(futures) : TaskResult(i).ok

(***************************************************************************)
(* C15: for every list of fan-out tasks t1..tn that all succeed,           *)
(* spawn_multiple_tasks returns a list of length n whose i-th element is   *)
(* the result of ti, whatever order the subagents complete in.             *)
(***************************************************************************)
C15_FanOutKeepsTaskOrder ==
    (FanOutReturned /\ AllSucceeded)
        => /\ Unwrap(fresult).ok
           /\ Len(Unwrap(fresult).value) = Len(tasks)
           /\ \A i \in 1..Len(tasks) :
                  /\ Unwrap(fresult).value[i] = TaskResult(i).value
                  /\ Unwrap(fresult).value[i][2] = tasks[i].description[1]
                  /\ Unwrap(fresult).value[i][3] = tasks[i].subagent_type

\* Three tasks have succeeded, the last one first, with different results.
C15_Witness ==
    /\ FanOutReturned
    /\ AllSucceeded
    /\ Len(tasks) = 3
    /\ completed = <<3, 1, 2>>
    /\ TaskResult(1).value # TaskResult(2).value
    /\ TaskResult(2).value # TaskResult(3).value
    /\ TaskResult(1).value # TaskResult(3).value

(***************************************************************************)
(* C16: in fan-out mode, when one subagent task fails, the results of the  *)
(* sibling tasks that succeeded are still returned to the caller.          *)
(***************************************************************************)
Carries(res, v) == res.ok /\ \E k \in 1..Len(res.value) : res.value[k] = v

C16_SiblingResultsReturned ==
    (FanOutReturned /\ ~AllSucceeded)
        => \A j \in 1..Len(futures) :
               TaskResult(j).ok => Carries(Unwrap(fresult), TaskResult(j).value)


(***************************************************************************)
(* C17: inside a subagent loop a tool whose execution returns an error     *)
(* does not abort the loop: the error is appended as a tool message (text  *)
(* 'Tool execution error: ...') carrying the call's id, the remaining      *)
(* calls of the response are still dispatched and the loop goes on to the  *)
(* next model call.                                                        *)
(***************************************************************************)
SubAtToolCall ==
    /\ pc = "sub"
    /\ sub.pc = "dispatch"
    /\ sub.tool_calls[sub.idx].function
    /\ sub.tool_calls[sub.idx].name # "task"

C17_SubagentToolErrorBecomesMessage ==
    [][SubAtToolCall =>
          LET call == sub.tool_calls[sub.idx]
              answer == sub'.messages[Len(sub'.messages)]
          IN /\ Len(sub'.messages) = Len(sub.messages) + 1
             /\ SubSeq(sub'.messages, 1, Len(sub.messages)) = sub.messages
             /\ answer.role = "tool"
             /\ IsSome(call.id) => answer.tool_call_id = call.id
             /\ \/ answer.content = <<"out">>
                \/ /\ Len(answer.content) >= 2
                   /\ answer.content[1] = "Tool execution error: "
             /\ sub'.idx = sub.idx + 1
             /\ sub'.pc = IF sub.idx < Len(sub.tool_calls) THEN "dispatch" ELSE "loop"
             /\ sub'.result = None
             /\ pc' = "sub"
             /\ outcome' = outcome]_vars

\* A tool has failed, its error text is a tool message with the call's id,
\* the later calls of the response were answered and the model is called
\* again.
C17_Witness ==
    /\ pc = "sub"
    /\ sub.pc = "chat"
    /\ sub.turn >= 2
    /\ \E k \in 1..(Len(sub.messages) - 2) :
           /\ sub.messages[k].role = "tool"
           /\ sub.messages[k].tool_call_id = <<"">>
           /\ sub.messages[k].content =
                  <<"Tool execution error: ", "Tool execution error: ", "boom">>
           /\ sub.messages[k + 1].role = "tool"
           /\ sub.messages[k + 2].role = "tool"

(***************************************************************************)
(* C18: in the top-level loop a tool whose execution returns an error      *)
(* aborts the turn: invoke returns an error carrying the tool's error      *)
(* text, no tool message is appended for the failing call, no later call   *)
(* of the same response is dispatched and no further model call is made in *)
(* that turn.                                                              *)
(***************************************************************************)
ToolErrorReturned ==
    /\ TurnEnded
    /\ ~Unwrap(outcome).ok
    /\ Unwrap(outcome).value[1] = "Tool execution error: "

C18_ToolErrorAbortsTurn ==
    /\ ToolErrorReturned
           => /\ Unwrap(outcome).value = <<"Tool execution error: ", "boom">>
              /\ tool_calls[idx].function
              /\ tool_calls[idx].name \in RegisteredTools
              /\ AnswersInPlace(SubSeq(tool_calls, 1, idx - 1))
              /\ chat_calls = Len(log)
              /\ chat_calls = iteration
    /\ \A k \in 1..Len(messages) :
           (messages[k].role = "tool" /\ messages[k].content # <<>>)
               => messages[k].content[1] # "Tool execution error: "

\* The second of three entries has failed: the turn is over, the third entry
\* was not dispatched.
C18_Witness ==
    /\ ToolErrorReturned
    /\ tool_calls = <<KNoFn, K3, K2>>
    /\ idx = 2
    /\ messages[Len(messages)].role = "assistant"

(***************************************************************************)
(* C19 (as claimed): a tool call whose name matches no registered tool     *)
(* makes dispatch fail with a 'Tool not found' error, and that error is    *)
(* appended to the conversation as a tool message for the call.            *)
(***************************************************************************)
AtUnknownTool ==
    /\ pc = "dispatch"
    /\ tool_calls[idx].function
    /\ tool_calls[idx].name \notin RegisteredTools

SubAtUnknownTool ==
    /\ SubAtToolCall
    /\ sub.tool_calls[sub.idx].name \notin RegisteredTools

NotFoundAnswer(call, before_, after_) ==
    /\ Len(after_) = Len(before_) + 1
    /\ SubSeq(after_, 1, Len(before_)) = before_
    /\ after_[Len(after_)].role = "tool"
    /\ IsSome(call.id) => after_[Len(after_)].tool_call_id = call.id
    /\ \E k \in 1..(Len(after_[Len(after_)].content) - 1) :
           /\ after_[Len(after_)].content[k] = "Tool not found: "
           /\ after_[Len(after_)].content[k + 1] = call.name

C19_UnknownToolSurfacedAsToolMessage ==
    [][/\ AtUnknownTool => NotFoundAnswer(tool_calls[idx], messages, messages')
       /\ SubAtUnknownTool
              => NotFoundAnswer(sub.tool_calls[sub.idx], sub.messages, sub'.messages)]_vars

(***************************************************************************)
(* C19 (amended): a tool call whose name matches no registered tool makes  *)
(* dispatch fail with a 'Tool not found' error; inside a subagent loop the *)
(* error is appended as a tool message for the call and the loop goes on,  *)
(* in the top-level loop it ends the turn with that error and no tool      *)
(* message is appended.                                                    *)
(***************************************************************************)
C19_UnknownToolSurfacedInSubagentOnly ==
    [][/\ AtUnknownTool
              => /\ messages' = messages
                 /\ outcome' = Some(Err(<<"Tool not found: ", tool_calls[idx].name>>))
                 /\ pc' = "idle"
                 /\ chat_calls' = chat_calls
       /\ SubAtUnknownTool
              => /\ NotFoundAnswer(sub.tool_calls[sub.idx], sub.messages, sub'.messages)
                 /\ sub'.pc \in {"dispatch", "loop"}
                 /\ sub'.result = None
                 /\ pc' = "sub"]_vars

\* A turn has failed on an unknown tool; in the next turn a subagent has had
\* the 'Tool not found' text appended and calls its model again.
C19_Witness ==
    /\ pc = "sub"
    /\ sub.pc = "chat"
    /\ \E k \in 1..Len(sub.messages) :
           /\ sub.messages[k].role = "tool"
           /\ sub.messages[k].tool_call_id = <<"c5">>
           /\ sub.messages[k].content =
                  <<"Tool execution error: ", "Tool not found: ", "nope">>
    /\ Len(before) = 2
    /\ before[2].tool_calls = <<(<<KUnknown>>)>>

(***************************************************************************)
(* C20: when a top-level turn fails (transport error, tool error or        *)
(* iteration ceiling) history is not rolled back: every message that was   *)
(* in the conversation before invoke is still there, unchanged and in the  *)
(* same order, followed by the messages appended during the failed turn,   *)
(* and the agent accepts the next user input.                              *)
(***************************************************************************)
C20_FailedTurnKeepsHistory ==
    /\ (pc # "idle" \/ IsSome(outcome))
           => /\ Len(messages) > Len(before)
              /\ SubSeq(messages, 1, Len(before)) = before
              /\ messages[Len(before) + 1].role = "user"
    /\ (TurnEnded /\ ~Unwrap(outcome).ok)
           => /\ Len(TurnMessages) = 1 + Len(log) + Len(ToolMessages(TurnMessages))
              /\ \A k \in 1..Len(log) :
                     \E j \in 2..Len(TurnMessages) :
                         /\ TurnMessages[j].role = "assistant"
                         /\ TurnMessages[j].content = log[k].content
                         /\ TurnMessages[j].tool_calls = log[k].tool_calls
    /\ IsSome(outcome) => pc = "idle"

\* A turn has failed after a response and a tool message were appended, in a
\* conversation whose earlier turn had failed too.
C20_Witness ==
    /\ TurnEnded
    /\ ~Unwrap(outcome).ok
    /\ Len(before) = 2
    /\ IsSome(before[2].tool_calls)
    /\ Len(TurnMessages) >= 4

(***************************************************************************)
(* The conversation-ownership claims.                                      *)
(***************************************************************************)
\* No message of conv is a message of the parent's conversation.
NoParentMessage(conv) == \A i \in 1..Len(conv) : \A j \in 1..Len(messages) : conv[i] # messages[j]

\* The futures of the fan-out that differ between the two states of a step.
ChangedFutures == {i \in 1..Len(futures) : i \in 1..Len(futures') /\ futures'[i] # futures[i]}

\* C21: a conversation is changed only by the loop of the agent that owns
\* it.  While a delegated subagent runs, the parent's messages are unchanged;
\* when it returns, the parent's conversation gains nothing but one tool
\* message carrying the delegation call's id; the conversation a subagent is
\* seeded with holds no parent message unless context was passed to
\* spawn_task_with_options; and while a fan-out or a spawned task runs, the
\* parent's messages are unchanged and a step changes one future only.
C21_ConversationOwnedByItsAgent ==
    [][ /\ (sub.pc # "none" /\ sub'.pc # "none") => messages' = messages
        /\ (sub.pc # "none" /\ sub'.pc = "none") =>
               \/ messages' = messages
               \/ /\ Len(messages') = Len(messages) + 1
                  /\ SubSeq(messages', 1, Len(messages)) = messages
                  /\ messages'[Len(messages')].role = "tool"
                  /\ messages'[Len(messages')].tool_call_id = Some(ToolCallId(tool_calls[idx]))
        /\ (sub.pc = "none" /\ sub'.pc # "none") =>
               /\ messages' = messages
               /\ NoParentMessage(sub'.messages)
        /\ (fpc = "joining" \/ fpc' = "joining") =>
               /\ messages' = messages
               /\ Cardinality(ChangedFutures) <= 1
               /\ \A i \in 1..Len(futures') :
                      futures'[i].pc # "created" => NoParentMessage(futures'[i].messages)
        /\ (spawn.pc = "running" \/ spawn'.pc = "running") =>
               /\ messages' = messages
               /\ spawn'.pc = "running" /\ spawn'.context = None =>
                      NoParentMessage(spawn'.messages)
      ]_vars

\* Witness for C21: a delegated subagent has answered a model call of its
\* own while its parent, whose conversation holds the delegating turn, waits.
C21_Witness ==
    /\ pc = "sub"
    /\ sub.pc # "none"
    /\ Len(sub.messages) > Len(InitialMessages(sub.args))
    /\ Len(messages) >= 2

(***************************************************************************)
(* The seeding claims.                                                     *)
(***************************************************************************)
NonSystem(conv) == SelectSeq(conv, LAMBDA msg : msg.role # "system")

\* The last n messages of conv, all of them when there are fewer.
LastOf(conv, n) == SubSeq(conv, IF Len(conv) > n THEN Len(conv) - n + 1 ELSE 1, Len(conv))

\* The messages of the seeded conversation between the role's system prompt
\* and the closing user message.
SeededContext(conv, type) ==
    SubSeq(conv, IF type = "general-purpose" THEN 1 ELSE 2, Len(conv) - 1)

SpawnedWithContext == spawn.pc # "idle" /\ IsSome(spawn.context)

SpawnCopied == SeededContext(spawn.messages, SubagentTypeStr(spawn.args))

\* C22 as stated: the messages copied are the last 10 non-system messages of
\* the supplied context.
C22_LastTenNonSystemCopied ==
    SpawnedWithContext =>
        SpawnCopied = LastOf(NonSystem(Unwrap(spawn.context)), 10)

\* C22, amended: the messages copied are the non-system messages among the
\* last 10 messages of the supplied context, in their original order; no
\* system message is copied and never more than 10 messages are.
C22_NonSystemOfLastTenCopied ==
    SpawnedWithContext =>
        /\ SpawnCopied = NonSystem(LastOf(Unwrap(spawn.context), 10))
        /\ Len(SpawnCopied) <= 10
        /\ \A i \in 1..Len(SpawnCopied) : SpawnCopied[i].role # "system"

\* Witness for C22: a context of more than 10 messages with a system message
\* among its last 10 and an older user message has been supplied.
C22_Witness ==
    /\ spawn.pc = "running"
    /\ IsSome(spawn.context)
    /\ Len(Unwrap(spawn.context)) > 10
    /\ Unwrap(spawn.context)[1].role = "user"
    /\ Unwrap(spawn.context)[Len(Unwrap(spawn.context))].role = "system"
    /\ Len(SpawnCopied) = 9

\* conv is the role's system prompt exactly when the role is not
\* general-purpose, then the context part, then one user message combining
\* the description and the prompt.
SeedShape(conv, type, description, prompt, context_part) ==
    LET k == IF type = "general-purpose" THEN 0 ELSE 1
    IN /\ Len(conv) = k + Len(context_part) + 1
       /\ k = 1 => conv[1] = Msg("system", Unwrap(SystemPrompt(type)), None, None)
       /\ \A i \in (k + 1)..Len(conv) : conv[i].role # "system"
       /\ SubSeq(conv, k + 1, Len(conv) - 1) = context_part
       /\ conv[Len(conv)] =
              Msg("user", <<"Task: ">> \o description \o <<"\n\nDetails:\n">> \o prompt,
                  None, None)

ArgsSeedShape(conv, args, context_part) ==
    SeedShape(conv, SubagentTypeStr(args), Unwrap(args.description), Unwrap(args.prompt),
              context_part)

\* C23: the conversation a subagent starts with is the role's system prompt
\* if and only if the role is not general-purpose, then the context
\* messages, then exactly one user message combining the description and the
\* prompt, and nothing else; for a delegated subagent, a spawned task and
\* every task of a fan-out.
C23_SeedConversationShape ==
    [][ /\ \A t \in SubAgentTypes : IsSome(SystemPrompt(t)) <=> t # "general-purpose"
        /\ (sub.pc = "none" /\ sub'.pc # "none") => ArgsSeedShape(sub'.messages, sub'.args, <<>>)
        /\ spawn'.pc = "running" =>
               ArgsSeedShape(spawn'.messages, spawn'.args,
                             IF IsSome(spawn'.context)
                             THEN ContextWindow(Unwrap(spawn'.context)) ELSE <<>>)
        /\ \A i \in 1..Len(futures') :
               futures'[i].pc = "running" =>
                   ArgsSeedShape(futures'[i].messages, SpawnTaskArgs(tasks'[i]), <<>>)
      ]_vars

\* Witness for C23: a task of a role with a system prompt has been spawned
\* with the history of a finished turn as context.
C23_Witness ==
    /\ spawn.pc = "running"
    /\ SubagentTypeStr(spawn.args) = "explore"
    /\ IsSome(spawn.context)
    /\ Len(Unwrap(spawn.context)) >= 2
    /\ Len(spawn.messages) = Len(Unwrap(spawn.context)) + 2

(***************************************************************************)
(* The delegation-dispatch claims.                                         *)
(***************************************************************************)
\* invoke is about to dispatch a call naming the delegation tool.
AtTaskCall == pc = "dispatch" /\ tool_calls[idx].function /\ tool_calls[idx].name = "task"

\* What the registry path would make of a call to the registered task tool.
RegistryAnswers ==
    {ExecuteRegular("task", r).value : r \in ToolOutcomes}
    \cup {<<"Tool execution error: ">> \o ExecuteRegular("task", r).value : r \in ToolOutcomes}

\* C24: a call named 'task' never goes through the registry.  At top level
\* its dispatch appends no tool message: it starts a subagent or fails on
\* the arguments, and the tool message that is appended later is the
\* formatted result of the subagent; in a subagent loop it is answered by the
\* recursion guard; in neither loop is the answer what the registered tool's
\* execute returns.
C24_TaskNeverThroughRegistry ==
    [][ /\ AtTaskCall =>
               /\ messages' = messages
               /\ \/ pc' = "sub" /\ sub'.pc # "none"
                  \/ /\ pc' = "idle"
                     /\ IsSome(TaskArgError(tool_calls[idx].arguments))
                     /\ outcome' = Some(Err(Unwrap(TaskArgError(tool_calls[idx].arguments))))
        /\ (pc = "sub" /\ sub.pc = "returned" /\ messages' # messages) =>
               /\ messages'[Len(messages')].content =
                      FormatResult(sub.args, Unwrap(sub.result).value)
               /\ messages'[Len(messages')].content \notin RegistryAnswers
        /\ SubAtTaskCall =>
               /\ sub'.messages = Append(sub.messages,
                                         ToolMsg(sub.tool_calls[sub.idx], RecursionGuard))
               /\ RecursionGuard \notin RegistryAnswers
      ]_vars

\* Witness for C24: inside a subagent started by a 'task' call, a 'task'
\* call has been answered by the recursion guard.
C24_Witness ==
    /\ pc = "sub"
    /\ tool_calls[idx].name = "task"
    /\ \E i \in 1..Len(sub.messages) :
          sub.messages[i].role = "tool" /\ sub.messages[i].content = RecursionGuard

\* C25: the role names of the delegation tool's subagent_type enum are
\* exactly those the dispatcher accepts: a complete delegation call naming an
\* advertised role starts a subagent of that role, and one naming any other
\* role is rejected.
C25_AdvertisedRolesAreAccepted ==
    [][ (/\ AtTaskCall
         /\ IsSome(tool_calls[idx].arguments.subagent_type)
         /\ IsSome(tool_calls[idx].arguments.description)
         /\ IsSome(tool_calls[idx].arguments.prompt)) =>
            IF Unwrap(tool_calls[idx].arguments.subagent_type) \in AdvertisedSubagentTypes
            THEN /\ pc' = "sub"
                 /\ SubagentTypeStr(sub'.args) = Unwrap(tool_calls[idx].arguments.subagent_type)
            ELSE /\ pc' = "idle"
                 /\ IsSome(outcome')
                 /\ ~Unwrap(outcome').ok
      ]_vars

\* C26: a delegation call without subagent_type, prompt or description, or
\* naming a role the dispatcher does not know, fails with an error before a
\* subagent conversation is built and before any chat call.
C26_IncompleteDelegationFails ==
    [][ (/\ AtTaskCall
         /\ \/ ~IsSome(tool_calls[idx].arguments.subagent_type)
            \/ ~IsSome(tool_calls[idx].arguments.description)
            \/ ~IsSome(tool_calls[idx].arguments.prompt)
            \/ SubagentTypeStr(tool_calls[idx].arguments) \notin SubAgentTypes) =>
            /\ pc' = "idle"
            /\ IsSome(outcome')
            /\ ~Unwrap(outcome').ok
            /\ sub' = NoSub
            /\ chat_calls' = chat_calls
      ]_vars

(***************************************************************************)
(* The join of the fan-out.                                                *)
(***************************************************************************)
\* C27: spawn_multiple_tasks returns only after every task has finished,
\* successfully or not: once it has returned, every future is done and each
\* has completed exactly once, whatever failed and however early.
C27_ReturnsAfterEveryTask ==
    fpc = "returned" =>
        /\ IsSome(fresult)
        /\ Len(futures) = Len(tasks)
        /\ \A i \in 1..Len(futures) : futures[i].pc = "done"
        /\ Len(completed) = Len(tasks)

\* Witness for C27: the fan-out has returned an error; the task that failed
\* finished first and a sibling that finished after it succeeded.
C27_Witness ==
    /\ fpc = "returned"
    /\ Len(completed) >= 2
    /\ ~Unwrap(futures[completed[1]].result).ok
    /\ Unwrap(futures[completed[Len(completed)]].result).ok
    /\ ~Unwrap(fresult).ok

(***************************************************************************)
(* The conversation within a turn.                                         *)
(***************************************************************************)
IsPrefix(earlier, later) ==
    Len(earlier) <= Len(later) /\ SubSeq(later, 1, Len(earlier)) = earlier

\* C28: within a turn the conversation is append-only: every step of invoke,
\* its first included, and every step of run_subagent_loop after seeding
\* leaves the earlier message list a prefix of the new one.
C28_AppendOnlyWithinTurn ==
    [][ /\ (pc # "idle" \/ pc' # "idle") => IsPrefix(messages, messages')
        /\ (sub.pc # "none" /\ sub'.pc # "none") => IsPrefix(sub.messages, sub'.messages)
      ]_vars

\* Witness for C28: a subagent has appended to its seeded conversation while
\* the parent's turn has appended a user, an assistant and a tool message to
\* an earlier history.
C28_Witness ==
    /\ pc = "sub"
    /\ before # <<>>
    /\ Len(messages) >= Len(before) + 3
    /\ Len(sub.messages) >= Len(InitialMessages(sub.args)) + 2

(***************************************************************************)
(* The lifecycle of a SubAgentExecution.                                   *)
(***************************************************************************)
IsNewExecution(exec, now) ==
    /\ exec.status = Status("Pending", None)
    /\ exec.start_time = None
    /\ exec.end_time = None
    /\ exec.result = None
    /\ ExecutionDuration(exec, now) = None

\* C29: a new execution is Pending with no start time, end time, result or
\* duration; start() makes it Running with a start time; complete(r) after
\* start() makes it Completed with an end time, the result r and a defined
\* duration; fail(e) after start() makes it Failed(e) with an end time.
C29_ExecutionLifecycle ==
    /\ IsNewExecution(execution, clock)
    /\ [][ /\ (\E id \in ExecutionIds, task \in ExecutionTasks : ExecutionNew(id, task)) =>
                  IsNewExecution(execution', clock')
           /\ (\E t \in 0..MaxClock : ExecutionStart(t)) =>
                  /\ execution'.status = Status("Running", None)
                  /\ execution'.start_time = Some(clock')
           /\ \A r \in ExecutionResults :
                  (IsSome(execution.start_time) /\ \E t \in 0..MaxClock : ExecutionComplete(t, r)) =>
                      /\ execution'.status = Status("Completed", None)
                      /\ execution'.end_time = Some(clock')
                      /\ execution'.result = Some(r)
                      /\ IsSome(ExecutionDuration(execution', clock'))
           /\ \A e \in ExecutionErrors :
                  (IsSome(execution.start_time) /\ \E t \in 0..MaxClock : ExecutionFail(t, e)) =>
                      /\ execution'.status = Status("Failed", Some(e))
                      /\ execution'.end_time = Some(clock')
          ]_vars

\* Witness for C29: an execution was started and, later, completed with
\* "Task result".
C29_Witness ==
    /\ execution.status = Status("Completed", None)
    /\ IsSome(execution.start_time)
    /\ IsSome(execution.end_time)
    /\ Unwrap(execution.start_time) < Unwrap(execution.end_time)
    /\ execution.result = Some(<<"Task result">>)
    /\ ExecutionDuration(execution, clock) = Some(Unwrap(execution.end_time) - Unwrap(execution.start_time))

(***************************************************************************)
(* Termination of a turn.                                                  *)
(***************************************************************************)
\* C30: whatever the model answers, and as long as every chat call and tool
\* execution returns, Agent::invoke ends, in Done or in Failed, after at most
\* 5 model calls of its loop; and an ended turn stays ended: nothing happens
\* to the agent until the user's next prompt starts a new turn (a failed
\* turn is not retried) or the history is cleared.
C30_InvokeTerminates ==
    /\ [](chat_calls <= 5)
    /\ [](pc = "idle" => sub.pc = "none")
    /\ [][pc = "idle" =>
             \/ pc' = "idle" /\ chat_calls' <= chat_calls
             \/ /\ pc' = "loop"
                /\ chat_calls' = 0
                /\ outcome' = None
                /\ Len(messages') = Len(messages) + 1
                /\ messages'[Len(messages')].role = "user"]_vars
    /\ (pc # "idle") ~> TurnEnded

\* Witness for C30: a turn has ended in Done on its fifth model call.
C30_Witness ==
    /\ TurnEnded
    /\ Unwrap(outcome).ok
    /\ chat_calls = 5
    /\ Len(TurnMessages) >= 6

(***************************************************************************)
(* The reasoning buffer and the cursor of the decoder.                     *)
(***************************************************************************)
\* C31: reasoning text that was buffered and not yet emitted is emitted when
\* the stream ends, however it ends: when a verbose call has returned, no
\* reasoning text is left in the buffer.
C31_BufferedReasoningIsFlushed ==
    (StreamReturned /\ verbose) => thinking_buffer = <<>>

\* C32: the verbose flag and the cursor do not change parsing: the content
\* and the tool calls a call returns are those the same stream gives a client
\* with the other verbose setting, whose cursor never leaves idle or, being
\* verbose, moves.
C32_VerboseDoesNotChangeParsing ==
    StreamReturned =>
        /\ Unwrap(dresult).ok = Returned(Decode(wire, ~verbose)).ok
        /\ Unwrap(dresult).content = Returned(Decode(wire, ~verbose)).content
        /\ Unwrap(dresult).tool_calls = Returned(Decode(wire, ~verbose)).tool_calls
        /\ ~verbose => status = 0 /\ LoopCallbacks(ui) = <<>>

\* Witness for C32: a verbose call whose cursor went from idle through
\* reasoning to responding has returned content and tool calls.
C32_Witness ==
    /\ StreamReturned
    /\ verbose
    /\ status = 2
    /\ Unwrap(dresult).content # <<>>
    /\ IsSome(Unwrap(dresult).tool_calls)
    /\ Decode(wire, FALSE).status = 0

(***************************************************************************)
(* The error of a fan-out.                                                 *)
(***************************************************************************)
FailedTasks == {i \in 1..Len(futures) : ~TaskResult(i).ok}

FirstFailedTask == CHOOSE i \in FailedTasks : \A j \in FailedTasks : i <= j

\* C33: when tasks of a fan-out fail, spawn_multiple_tasks returns the error
\* of the failed task that comes first in the request order, whichever
\* failed first in time.
C33_FirstErrorInRequestOrder ==
    (FanOutReturned /\ ~AllSucceeded)
        => /\ ~Unwrap(fresult).ok
           /\ Unwrap(fresult) = TaskResult(FirstFailedTask)

\* Witness for C33: two tasks failed with different errors, the later one
\* of the request first, and a task before both succeeded.
C33_Witness ==
    /\ FanOutReturned
    /\ Len(tasks) = 3
    /\ TaskResult(1).ok
    /\ FailedTasks = {2, 3}
    /\ TaskResult(2) # TaskResult(3)
    /\ completed[1] = 3
    /\ Unwrap(fresult) = TaskResult(2)

(***************************************************************************)
(* A failed delegation.                                                    *)
(***************************************************************************)
SubFailed == SubReturned /\ ~SubResult.ok

\* C34: when the subagent of a top-level delegation call fails, on a chat
\* error or on its bound, the parent's turn fails with that error: the step
\* that takes the result appends no tool message, makes no model call and
\* ends the turn with the subagent's error; and a turn that has ended with an
\* error of a subagent ends on the assistant message that delegated: no tool
\* message follows it.
C34_SubagentFailureFailsTurn ==
    /\ [][SubFailed =>
             /\ messages' = messages
             /\ chat_calls' = chat_calls
             /\ pc' = "idle"
             /\ outcome' = Some(Err(SubResult.value))]_vars
    /\ [](SubFailed => SubResult \in {Err(<<"transport">>), IterationBoundError})
    /\ []((TurnEnded /\ ~Unwrap(outcome).ok /\ tool_calls # <<>> /\ idx \in 1..Len(tool_calls)
            /\ tool_calls[idx].name = "task" /\ IsSome(tool_calls[idx].id)
            /\ ~IsSome(TaskArgError(tool_calls[idx].arguments)))
           => /\ messages[Len(messages)].role = "assistant"
              /\ messages[Len(messages)].tool_calls = Some(tool_calls))

\* Witness for C34: a turn has failed with the bound-exceeded error of the
\* subagent its first response delegated to.
C34_Witness ==
    /\ TurnEnded
    /\ outcome = Some(IterationBoundError)
    /\ chat_calls = 1
    /\ messages[Len(messages)].role = "assistant"
    /\ IsSome(messages[Len(messages)].tool_calls)

(***************************************************************************)
(* The history sent to the chat client.                                    *)
(***************************************************************************)
\* The call recorded at position k of the assistant message at position i of
\* conv is answered by a later tool message carrying its id.
Answered(conv, i, k) ==
    \E j \in (i + 1)..Len(conv) :
        /\ conv[j].role = "tool"
        /\ conv[j].tool_call_id = Some(ToolCallId(Unwrap(conv[i].tool_calls)[k]))

EveryCallAnswered(conv) ==
    \A i \in 1..Len(conv) :
        (conv[i].role = "assistant" /\ IsSome(conv[i].tool_calls)) =>
            \A k \in 1..Len(Unwrap(conv[i].tool_calls)) : Answered(conv, i, k)

\* C35: whenever the chat client is called, in any turn after any earlier
\* turns, every tool call recorded in an assistant message of the history
\* being sent is answered by a later tool message with the matching id.
C35_NoUnansweredCallIsSent ==
    pc = "chat" => EveryCallAnswered(messages)

(***************************************************************************)
(* A subagent without tool definitions.                                    *)
(***************************************************************************)
\* What the subagent loop appends when the registry has run a tool.
ToolRunTexts == {SubToolText(ExecuteRegular("bash", r)) : r \in ToolOutcomes}

\* C36: a subagent whose chat client carries no tool definitions never
\* executes a tool: when its model answers with a call of a registered tool,
\* the step that handles the call does not append what the tool returned.
C36_NoToolRunWithoutDefinitions ==
    [][(/\ SubAtToolCall
        /\ ~sub.ollama.tools
        /\ sub.tool_calls[sub.idx].name \in RegisteredTools)
       => sub'.messages[Len(sub'.messages)].content \notin ToolRunTexts]_vars

(***************************************************************************)
(* The endpoint of a subagent.                                             *)
(***************************************************************************)
\* C37: every chat call of a subagent goes to the endpoint of the parent's
\* chat calls, the one built from the configuration, whether or not the
\* subagent was given tools.
C37_SubagentUsesParentEndpoint ==
    (pc = "sub" /\ sub.pc = "chat") => Endpoint(sub.ollama) = Endpoint(ConfiguredClient)

(***************************************************************************)
(* The flags of a fan-out task.                                            *)
(***************************************************************************)
\* C38: in a fan-out the flags of each task decide how its subagent is run:
\* with include_tools and a role that may use tools the client carries the
\* tool definitions, and with include_context the conversation is seeded
\* with the caller's recent messages.
C38_FanOutHonoursTaskFlags ==
    \A i \in 1..Len(futures) :
        futures[i].pc # "created" =>
            /\ (tasks[i].include_tools /\ UsesTools(tasks[i].subagent_type))
                   => futures[i].ollama.tools
            /\ tasks[i].include_context
                   => futures[i].messages =
                          SpawnMessages(SpawnTaskArgs(tasks[i]), Some(messages))

(***************************************************************************)
(* Tool messages in a seeded conversation.                                 *)
(***************************************************************************)
\* Every tool message of conv is preceded by an assistant message that
\* records a call with its id.
ToolMessagesFollowTheirCall(conv) ==
    \A j \in 1..Len(conv) :
        conv[j].role = "tool" =>
            \E i \in 1..(j - 1) :
                /\ conv[i].role = "assistant"
                /\ IsSome(conv[i].tool_calls)
                /\ \E k \in 1..Len(Unwrap(conv[i].tool_calls)) :
                       conv[j].tool_call_id = Some(ToolCallId(Unwrap(conv[i].tool_calls)[k]))

\* C39: when the context supplied is well-formed, the conversation the
\* subagent is seeded with is too: after the cut to the most recent messages
\* every tool message is still preceded by the assistant message whose call
\* it answers.
C39_SeedKeepsToolMessagesPaired ==
    (SpawnedWithContext /\ ToolMessagesFollowTheirCall(Unwrap(spawn.context)))
        => ToolMessagesFollowTheirCall(spawn.messages)

=============================================================================
